---------------------------- MODULE Spec2Model ----------------------------
(***************************************************************************)
(* Model of the event-dispatch and hotkey-matching engine of the keyboard  *)
(* package (src/keyboard/__init__.py): module import, the listener's       *)
(* direct_callback on the hook thread, the queue worker running            *)
(* pre_process_event, add_hotkey with its single-step and multi-step       *)
(* handlers, send/press/release and the state stash/restore helpers.       *)
(*                                                                         *)
(* A Python function that mutates the module's globals is an operator from *)
(* an engine record (one field per global / listener attribute) to the     *)
(* engine record after the call; an action applies one whole handler to    *)
(* the record built from the variables and stores the result.              *)
(***************************************************************************)
EXTENDS Integers, Sequences, FiniteSets, TLC

\* ------------------------------------------------------------------ bounds
\* Number of physical key events the keyboard produces in one run.
MaxEvents == 5
\* Last value of the monotonic clock (ticks of one second).
MaxTime == 1
\* Number of hotkey registrations made in one run.
MaxRegs == 1
\* Number of physical events that may precede a registration.
MaxEventsBeforeReg == 1
\* Number of API calls (send, stash_state, ...) user threads make in one run.
MaxCalls == 2
\* Number of physical key events in a run with user threads sending keys.
MaxSendEvents == 2
\* Number of physical key events in a run that starts with the import.
MaxImportEvents == 2
\* Number of registrations in a run with prefix-key hotkeys.
MaxPrefixRegs == 3
\* Number of physical key events in such a run.
MaxPrefixEvents == 4

\* The hook / hook_key registrations made, the API calls made and the
\* physical events when hooks are registered and removed.
MaxHooks == 1
MaxHookCalls == 3
MaxHookEvents == 2

\* The physical events before, and the registrations in, a run that calls
\* write, and the length of the text written.
MaxWriteEvents == 3
MaxTextLen == 2

\* The physical events before a call of play and the number of recorded
\* events it is given.
MaxPlayEvents == 2
MaxRecorded == 2

\* The physical events in a run that calls send once.
MaxSendOrderEvents == 2

\* The API calls and the physical events in a run that calls unhook_all.
MaxUnhookCalls == 3
MaxUnhookEvents == 4

\* The physical events and the seconds in a run with a word listener.
MaxWordEvents == 4
MaxWordTime == 2

\* The registrations and the physical events in a run that mixes suppressing
\* and non-suppressing hotkeys.
MaxMixedRegs == 2
MaxMixedEvents == 4

\* The physical events in a run on a keyboard with two ctrl keys.
MaxChordEvents == 4

\* The physical events in a run that types a two-step hotkey in full.
MaxSequenceEvents == 6

\* The physical events in a run that types a two-step hotkey and then
\* starts it again.
MaxRetryEvents == 10

\* The physical events in a run with a three-step hotkey.
MaxStepsEvents == 6

\* The physical events and the remove_hotkey calls in a run with a removal.
MaxRemoveEvents == 4

MaxRemoveCalls == 1

\* The physical events and the send calls in a run with two emitters.
MaxEmitEvents == 5

MaxEmitCalls == 1

\* The physical events in a run with a read_event call.
MaxReadEvents == 4

\* --------------------------------------------------------------- constants
KEY_DOWN == "down"
KEY_UP == "up"

\* Scan codes of the keys of the modelled keyboard.
LeftCtrl == 29
RightCtrl == 97
KeyA == 30
KeyB == 48
KeyC == 46
Space == 57
Tab == 15

\* add_hotkey's default timeout, in seconds.
DefaultTimeout == 1

\* The keys the attached keyboard has (it has no right ctrl key).
HwKeys == {LeftCtrl, KeyA, KeyB, KeyC}

\* ------------------------------------------------------------- name table
\* _canonical_names.sided_modifiers / all_modifiers.
sided_modifiers == {"ctrl", "alt", "shift", "windows"}

all_modifiers ==
    sided_modifiers \cup {"left ctrl", "right ctrl", "left alt", "right alt",
                          "left shift", "right shift", "left windows",
                          "right windows", "alt gr"}

\* The backend's map_name: the scan codes of a normalized name, in order;
\* the empty tuple stands for the ValueError of a name with no mapping.
map_name(name) ==
    CASE name = "left ctrl" -> <<LeftCtrl>>
      [] name = "right ctrl" -> <<RightCtrl>>
      [] name = "a" -> <<KeyA>>
      [] name = "b" -> <<KeyB>>
      [] name = "c" -> <<KeyC>>
      [] name = "space" -> <<Space>>
      [] name = "tab" -> <<Tab>>
      [] OTHER -> <<>>

\* Statements in sequence: F runs in the state (or with the value) s1 that
\* the statement before it left.
Then(s1, F(_)) == F(s1)

\* The same when the statement before may raise: the exception ends the
\* function, what follows is not run.
Try(s1, F(_)) == IF s1.raised THEN s1 ELSE F(s1)

\* ------------------------------------------------------- sequence helpers
SeqToSet(q) == {q[i] : i \in 1..Len(q)}

Min(S) == CHOOSE x \in S : \A y \in S : x <= y

\* tuple(sorted(S)) for a set of scan codes.
RECURSIVE SortedTuple(_)
SortedTuple(S) ==
    IF S = {} THEN <<>> ELSE <<Min(S)>> \o SortedTuple(S \ {Min(S)})

\* sorted(q) for a tuple of scan codes: insertion of q's items in order.
RECURSIVE sorted(_)
sorted(q) ==
    IF q = <<>> THEN <<>>
    ELSE LET rest == sorted(Tail(q))
             smaller == SelectSeq(rest, LAMBDA x : x < Head(q))
             others == SelectSeq(rest, LAMBDA x : x >= Head(q))
         IN smaller \o <<Head(q)>> \o others

\* list.remove(x): the list without the first occurrence of x.
RECURSIVE RemoveFirst(_, _)
RemoveFirst(q, x) ==
    IF q = <<>> THEN <<>>
    ELSE IF Head(q) = x THEN Tail(q)
    ELSE <<Head(q)>> \o RemoveFirst(Tail(q), x)

Contains(q, x) == \E i \in 1..Len(q) : q[i] = x

\* ------------------------------------------------------------------ keys
\* A key given to the API is a scan code (a number) or a key name (a string).
Code(c) == [code |-> c]
Name(n) == [name |-> n]
_is_number(key) == "code" \in DOMAIN key

\* key_to_scan_codes(key, error_if_missing): t is the tuple returned and
\* raised tells that the ValueError 'not mapped to any known key' was raised.
\* normalize_name is applied by the caller's choice of canonical names.
RECURSIVE key_to_scan_codes(_, _)
key_to_scan_codes(key, error_if_missing) ==
    IF _is_number(key) THEN [t |-> <<key.code>>, raised |-> FALSE]
    ELSE IF key.name \in sided_modifiers
    THEN LET left == key_to_scan_codes(Name("left " \o key.name), FALSE).t
             right == key_to_scan_codes(Name("right " \o key.name), FALSE).t
         IN [t |-> left \o SelectSeq(right, LAMBDA c : ~Contains(left, c)),
             raised |-> FALSE]
    ELSE LET t == map_name(key.name)
         IN [t |-> t, raised |-> (t = <<>> /\ error_if_missing)]

\* _modifier_scan_codes, as is_modifier fills it on its first use.
_modifier_scan_codes ==
    UNION {SeqToSet(key_to_scan_codes(Name(n), FALSE).t) : n \in all_modifiers}

is_modifier(scan_code) == scan_code \in _modifier_scan_codes

\* --------------------------------------------------------------- parsing
\* A hotkey given to the API is a scan code, [code |-> c], or a string,
\* [text |-> steps]: the string as the two re.split calls of parse_hotkey cut
\* it, a tuple of steps, each the tuple of its key names.
Hotkey(steps) == [text |-> steps]

\* tuple(key_to_scan_codes(key) for key in keys), with the first error.
RECURSIVE parse_step(_)
parse_step(keys) ==
    IF keys = <<>> THEN [t |-> <<>>, raised |-> FALSE]
    ELSE LET k == key_to_scan_codes(Name(Head(keys)), TRUE)
             rest == parse_step(Tail(keys))
         IN IF k.raised THEN [t |-> <<>>, raised |-> TRUE]
            ELSE [t |-> <<k.t>> \o rest.t, raised |-> rest.raised]

RECURSIVE parse_steps(_)
parse_steps(steps) ==
    IF steps = <<>> THEN [t |-> <<>>, raised |-> FALSE]
    ELSE LET st == parse_step(Head(steps))
             rest == parse_steps(Tail(steps))
         IN IF st.raised THEN [t |-> <<>>, raised |-> TRUE]
            ELSE [t |-> <<st.t>> \o rest.t, raised |-> rest.raised]

\* parse_hotkey(hotkey): steps -> keys -> alternative scan codes.
parse_hotkey(hotkey) ==
    IF _is_number(hotkey)
    THEN LET k == key_to_scan_codes(hotkey, TRUE)
         IN [t |-> << <<k.t>> >>, raised |-> k.raised]
    ELSE parse_steps(hotkey.text)

\* itertools.product(*step), in itertools' order.
RECURSIVE product(_)
RECURSIVE prefix_each(_, _)
prefix_each(codes, tails) ==
    IF codes = <<>> THEN <<>>
    ELSE [i \in 1..Len(tails) |-> <<Head(codes)>> \o tails[i]]
         \o prefix_each(Tail(codes), tails)

product(step) ==
    IF step = <<>> THEN << <<>> >>
    ELSE prefix_each(Head(step), product(Tail(step)))

\* combine_step(step): every combination of the keys' scan codes, sorted.
combine_step(step) ==
    LET p == product(step) IN [i \in 1..Len(p) |-> sorted(p[i])]

\* parse_hotkey_combinations(hotkey).
parse_hotkey_combinations(hotkey) ==
    Then(parse_hotkey(hotkey), LAMBDA parsed :
         [t |-> [i \in 1..Len(parsed.t) |-> combine_step(parsed.t[i])],
          raised |-> parsed.raised])

\* ------------------------------------------------------------------ state
VARIABLES
    pressed,              \* _pressed_events: the physically pressed scan codes
    logical,              \* _logically_pressed_keys
    active_modifiers,     \* _listener.active_modifiers
    modifier_states,      \* _listener.modifier_states ('free' when absent)
    filtered_modifiers,   \* _listener.filtered_modifiers (a Counter)
    blocking_hooks,       \* _listener.blocking_hooks
    blocking_keys,        \* _listener.blocking_keys: scan code -> key hooks
    handlers,             \* _listener.handlers: the non-blocking hooks
    word_listeners,       \* the add_word_listener registrations and `state`
    hooks,                \* the hook / hook_key registrations and _hooks
    blocking_hotkeys,     \* _listener.blocking_hotkeys: signature -> handlers
    nonblocking_hotkeys,  \* _listener.nonblocking_hotkeys
    is_replaying,         \* _listener.is_replaying
    queue,                \* _listener.queue
    regs,                 \* the add_hotkey registrations and their `state`
    now,                  \* _time.monotonic()
    hw,                   \* the keys held down on the keyboard
    phys,                 \* the physical events so far, in order
    os,                   \* the key events the OS has delivered, in order
    cb_threads,           \* the threads user callbacks have run on
    emitted,              \* the backend press/release calls made, in order
    user_todo,            \* what is left of the API call a user thread runs
    user_state,           \* the local `state` of that call (stash_state)
    user_calls,           \* the API calls user threads have started
    user_raised,          \* whether the last API call ended by raising
    user_op,              \* the play or send call a run keeps for reference
    budget,               \* the physical events the keyboard still produces
    import_pc,            \* where the import of the package stands
    temp_set,             \* whether os.environ has 'temp'
    marker_exists,        \* whether the marker file in %temp% exists
    spawned,              \* the subprocesses started (Popen, os.system)
    exec_decoded,         \* whether exec ran base64-decoded code
    setup_pc,             \* where a run of setup.py stands
    listening             \* GenericListener.listening: the hook is installed

engine_vars ==
    <<pressed, logical, active_modifiers, modifier_states, filtered_modifiers,
      blocking_hooks, blocking_keys, handlers, word_listeners, hooks,
      blocking_hotkeys,
      nonblocking_hotkeys, is_replaying, queue, regs, os, cb_threads,
      emitted>>

user_vars == <<user_todo, user_state, user_calls, user_raised, user_op>>

import_vars ==
    <<import_pc, temp_set, marker_exists, spawned, exec_decoded, setup_pc>>

vars ==
    <<engine_vars, user_vars, import_vars, now, hw, phys, budget, listening>>

\* The engine record of the current state, as seen by code on `thread`.
\* ret is the value the last call returned, raised whether it raised;
\* lock_holder is the thread inside `with _pressed_events_lock`, and
\* unlocked_writes the pressed-key tables the call wrote without the lock.
Eng(thread) ==
    [pressed |-> pressed, logical |-> logical,
     active_modifiers |-> active_modifiers,
     modifier_states |-> modifier_states,
     filtered_modifiers |-> filtered_modifiers,
     blocking_hooks |-> blocking_hooks,
     blocking_keys |-> blocking_keys, hooks |-> hooks,
     handlers |-> handlers, word_listeners |-> word_listeners,
     blocking_hotkeys |-> blocking_hotkeys,
     nonblocking_hotkeys |-> nonblocking_hotkeys,
     is_replaying |-> is_replaying, queue |-> queue, regs |-> regs,
     now |-> now, os |-> os, cb_threads |-> cb_threads,
     emitted |-> emitted,
     thread |-> thread, ret |-> TRUE, raised |-> FALSE,
     lock_holder |-> "none", unlocked_writes |-> {}]

\* The state after a call that left the engine record s.
Commit(s) ==
    /\ pressed' = s.pressed
    /\ logical' = s.logical
    /\ active_modifiers' = s.active_modifiers
    /\ modifier_states' = s.modifier_states
    /\ filtered_modifiers' = s.filtered_modifiers
    /\ blocking_hooks' = s.blocking_hooks
    /\ blocking_keys' = s.blocking_keys
    /\ handlers' = s.handlers
    /\ word_listeners' = s.word_listeners
    /\ hooks' = s.hooks
    /\ blocking_hotkeys' = s.blocking_hotkeys
    /\ nonblocking_hotkeys' = s.nonblocking_hotkeys
    /\ is_replaying' = s.is_replaying
    /\ queue' = s.queue
    /\ regs' = s.regs
    /\ os' = s.os
    /\ cb_threads' = s.cb_threads
    /\ emitted' = s.emitted

\* A KeyboardEvent.
Event(event_type, scan_code, time) ==
    [event_type |-> event_type, scan_code |-> scan_code, time |-> time]

\* What the OS delivers: a physical event the callback accepted, or a
\* synthetic one the backend's press/release injected.
Delivered(event_type, scan_code, synthetic) ==
    [event_type |-> event_type, scan_code |-> scan_code,
     synthetic |-> synthetic]

\* The dispatch table add_hotkey's `suppress` selects, and its assignment.
Table(s, suppress) ==
    IF suppress THEN s.blocking_hotkeys ELSE s.nonblocking_hotkeys

SetTable(s, suppress, d) ==
    IF suppress THEN [s EXCEPT !.blocking_hotkeys = d]
    ELSE [s EXCEPT !.nonblocking_hotkeys = d]

\* ------------------------------------------------------- collections
\* d[k] of a defaultdict(list).
Get(d, k) == IF k \in DOMAIN d THEN d[k] ELSE <<>>

\* d[k].append(v).
DictAppend(d, k, v) ==
    IF k \in DOMAIN d THEN [d EXCEPT ![k] = Append(@, v)] ELSE d @@ (k :> <<v>>)

\* d[k].remove(v) without its exception: the lookup creates the entry.
DictRemove(d, k, v) ==
    IF k \in DOMAIN d THEN [d EXCEPT ![k] = RemoveFirst(@, v)]
    ELSE d @@ (k :> <<>>)

\* The number of times scan code c occurs in the tuple q.
Count(q, c) == Cardinality({i \in 1..Len(q) : q[i] = c})

\* ------------------------------------------------------------------- send
\* _os_keyboard.press / release called while is_replaying is set: the OS
\* delivers the key, and direct_callback passes the injected event through.
Emitted(event_type, scan_code, replaying) ==
    [event_type |-> event_type, scan_code |-> scan_code,
     replaying |-> replaying]

os_press(s, scan_code) ==
    [s EXCEPT !.os = Append(@, Delivered(KEY_DOWN, scan_code, TRUE)),
              !.emitted = Append(@, Emitted(KEY_DOWN, scan_code, TRUE))]

os_release(s, scan_code) ==
    [s EXCEPT !.os = Append(@, Delivered(KEY_UP, scan_code, TRUE)),
              !.emitted = Append(@, Emitted(KEY_UP, scan_code, TRUE))]

\* send(scan_code, do_press, do_release) for one scan code, run to its end
\* by the calling thread.
send(s, scan_code, do_press, do_release) ==
    Then([s EXCEPT !.is_replaying = TRUE], LAMBDA s1 :
    Then(IF do_press THEN os_press(s1, scan_code) ELSE s1, LAMBDA s2 :
    Then(IF do_release THEN os_release(s2, scan_code) ELSE s2, LAMBDA s3 :
         [s3 EXCEPT !.is_replaying = FALSE])))

press(s, scan_code) == send(s, scan_code, TRUE, FALSE)

release(s, scan_code) == send(s, scan_code, FALSE, TRUE)

\* An entry of blocking_hooks for the callback of hook registration i, and
\* an entry of blocking_keys for the handler of hook_key registration i.
UserHook(i) == [kind |-> "user", reg |-> i]

KeyHook(i) == [kind |-> "key", reg |-> i]

\* ---------------------------------------------------------------- hotkeys
\* A registration made by add_hotkey: its arguments, the parsed steps, and
\* the closure state (`state` of add_hotkey) of a multi-step hotkey.
\* last_step names the handler state.remove_last_step removes.
NoHandler == [reg |-> 0, step |-> 0]

Handler(r, step) == [reg |-> r, step |-> step]

CatchMisses(r) == [kind |-> "catch_misses", reg |-> r]

\* event_type of add_hotkey: the edge the hotkey triggers on.
trigger_type(reg) == IF reg.trigger_on_release THEN KEY_UP ELSE KEY_DOWN

\* allowed_keys_by_step[index] (index counted from 0).
allowed_keys(reg, index) ==
    UNION {SeqToSet(reg.steps[index + 1][i]) : i \in 1..Len(reg.steps[index + 1])}

\* callback(): the user's callback runs on the calling thread and its result
\* is handed back.
callback(s, r) ==
    [s EXCEPT !.regs[r].calls = @ + 1,
              !.cb_threads = @ \cup {s.thread},
              !.ret = s.regs[r].cb_ret]

\* _add_hotkey_step(handler, combinations, suppress): the registration part.
RECURSIVE _add_hotkey_step(_, _, _, _)
_add_hotkey_step(s, handler, combinations, suppress) ==
    IF combinations = <<>> THEN s
    ELSE Then([s EXCEPT !.filtered_modifiers =
                          [c \in DOMAIN @ |->
                             @[c] + Count(Head(combinations), c)]],
              LAMBDA s1 :
         _add_hotkey_step(
             SetTable(s1, suppress,
                      DictAppend(Table(s1, suppress), Head(combinations),
                                 handler)),
             handler, Tail(combinations), suppress))

\* The remove closure _add_hotkey_step returns; list.remove raises
\* ValueError when the handler is not in the list.
RECURSIVE remove_step(_, _, _, _)
remove_step(s, handler, combinations, suppress) ==
    IF combinations = <<>> \/ s.raised THEN s
    ELSE Then([s EXCEPT !.filtered_modifiers =
                          [c \in DOMAIN @ |->
                             @[c] - Count(Head(combinations), c)]],
              LAMBDA s1 :
         Then(SetTable(s1, suppress,
                       DictRemove(Table(s1, suppress), Head(combinations),
                                  handler)),
              LAMBDA s2 :
         IF Contains(Get(Table(s1, suppress), Head(combinations)), handler)
         THEN remove_step(s2, handler, Tail(combinations), suppress)
         ELSE [s2 EXCEPT !.raised = TRUE]))

\* The remover of the handler h of registration h.reg.
remove_handler_of(s, h) ==
    remove_step(s, h, s.regs[h.reg].steps[h.step + 1], s.regs[h.reg].suppress)

\* state.remove_catch_misses(): the remover hook() returned, or the no-op.
remove_catch_misses(s, r) ==
    IF ~s.regs[r].hooked THEN s
    ELSE IF Contains(s.blocking_hooks, CatchMisses(r))
    THEN [s EXCEPT !.blocking_hooks = RemoveFirst(@, CatchMisses(r))]
    ELSE [s EXCEPT !.raised = TRUE]

\* set_index(new_index) without the removal of catch_misses at index 0.
set_index_keeps_hook(s, r, new_index) ==
    Then([s EXCEPT !.regs[r].index = new_index], LAMBDA s1 :
    Try(IF new_index = 1
        THEN Try(remove_catch_misses(s1, r), LAMBDA u :
                 [u EXCEPT !.blocking_hooks = Append(@, CatchMisses(r)),
                           !.regs[r].hooked = TRUE])
        ELSE s1, LAMBDA s2 :
    Then(_add_hotkey_step(s2, Handler(r, new_index),
                          s2.regs[r].steps[new_index + 1],
                          s2.regs[r].suppress), LAMBDA s3 :
         [s3 EXCEPT !.regs[r].last_step = Handler(r, new_index),
                    !.regs[r].last_update = s.now,
                    !.ret = FALSE])))

\* set_index(new_index) of add_hotkey.
set_index(s, r, new_index) ==
    Then([s EXCEPT !.regs[r].index = new_index], LAMBDA s1 :
    Try(IF new_index = 0
        THEN Try(remove_catch_misses(s1, r), LAMBDA u :
                 [u EXCEPT !.regs[r].hooked = FALSE])
        ELSE IF new_index = 1
        THEN Try(remove_catch_misses(s1, r), LAMBDA u :
                 [u EXCEPT !.blocking_hooks = Append(@, CatchMisses(r)),
                           !.regs[r].hooked = TRUE])
        ELSE s1, LAMBDA s2 :
    Then(_add_hotkey_step(s2, Handler(r, new_index),
                          s2.regs[r].steps[new_index + 1],
                          s2.regs[r].suppress), LAMBDA s3 :
         [s3 EXCEPT !.regs[r].last_step = Handler(r, new_index),
                    !.regs[r].last_update = s.now,
                    !.ret = FALSE])))

\* The replay loop of catch_misses: press or release every buffered event.
RECURSIVE replay_suppressed(_, _)
replay_suppressed(s, events) ==
    IF events = <<>> THEN s
    ELSE replay_suppressed(
             IF Head(events).event_type = KEY_DOWN
             THEN press(s, Head(events).scan_code)
             ELSE release(s, Head(events).scan_code),
             Tail(events))

\* catch_misses' condition without its timeout test.
misses_without_timeout(s, r, event, force_fail) ==
    LET reg == s.regs[r]
    IN \/ /\ event.event_type = trigger_type(reg)
          /\ reg.index # 0
          /\ event.scan_code \notin allowed_keys(reg, reg.index)
       \/ force_fail

\* The condition under which catch_misses resets the hotkey.
misses(s, r, event, force_fail) ==
    LET reg == s.regs[r]
    IN \/ /\ event.event_type = trigger_type(reg)
          /\ reg.index # 0
          /\ event.scan_code \notin allowed_keys(reg, reg.index)
       \/ /\ reg.timeout # 0
          /\ s.now - reg.last_update >= reg.timeout
       \/ force_fail

\* catch_misses(event, force_fail) of add_hotkey; it returns True.
catch_misses(s, r, event, force_fail) ==
    IF misses(s, r, event, force_fail)
    THEN Try(remove_handler_of(s, s.regs[r].last_step), LAMBDA s1 :
         Then(replay_suppressed(s1, s1.regs[r].suppressed_events),
              LAMBDA s2 :
         Try(set_index([s2 EXCEPT !.regs[r].suppressed_events = <<>>], r, 0),
             LAMBDA s4 : [s4 EXCEPT !.ret = TRUE])))
    ELSE [s EXCEPT !.ret = TRUE]

\* The handler of a single-step hotkey (the lambda of add_hotkey).
single_step_handler(s, r, e) ==
    IF /\ trigger_type(s.regs[r]) = KEY_DOWN
       /\ e.event_type = KEY_UP
       /\ e.scan_code \in s.logical
    THEN [s EXCEPT !.ret = TRUE]
    ELSE IF trigger_type(s.regs[r]) = e.event_type
    THEN callback(s, r)
    ELSE [s EXCEPT !.ret = FALSE]

\* The handler set_index registers for the last step.
final_handler(s, h, event) ==
    Try(IF event.event_type = KEY_UP
        THEN Try(remove_handler_of(s, h), LAMBDA u : set_index(u, h.reg, 0))
        ELSE s, LAMBDA s1 :
    Then(IF event.event_type = trigger_type(s1.regs[h.reg])
         THEN callback(s1, h.reg)
         ELSE [s1 EXCEPT !.ret = FALSE], LAMBDA s2 :
         IF s2.ret
         THEN catch_misses(s2, h.reg, event, TRUE)
         ELSE [s2 EXCEPT !.regs[h.reg].suppressed_events = <<event>>,
                         !.ret = FALSE]))

\* The handler set_index registers for a step before the last.
step_handler(s, h, event) ==
    Try(IF event.event_type = KEY_UP
        THEN Try(remove_handler_of(s, h), LAMBDA u :
                 set_index(u, h.reg, h.step + 1))
        ELSE s, LAMBDA s1 :
        [s1 EXCEPT !.regs[h.reg].suppressed_events = Append(@, event),
                   !.ret = FALSE])

\* A call of a handler in a dispatch table.
call_handler(s, h, event) ==
    IF Len(s.regs[h.reg].steps) = 1 THEN single_step_handler(s, h.reg, event)
    ELSE IF h.step = Len(s.regs[h.reg].steps) - 1
    THEN final_handler(s, h, event)
    ELSE step_handler(s, h, event)

\* --------------------------------------------------------------- listener
\* _KeyboardListener.transition_table: press tells to send a fake key press,
\* set whether the entry gives an accept value (it is None otherwise).
Transition(press_, set, accept, state) ==
    [press |-> press_, set |-> set, accept |-> accept, state |-> state]

transition_table(state, event_type, origin) ==
    CASE origin = "modifier" ->
           (CASE state = "free" /\ event_type = KEY_UP ->
                   Transition(FALSE, TRUE, TRUE, "free")
              [] state = "free" /\ event_type = KEY_DOWN ->
                   Transition(FALSE, TRUE, FALSE, "pending")
              [] state = "pending" /\ event_type = KEY_UP ->
                   Transition(TRUE, TRUE, TRUE, "free")
              [] state = "pending" /\ event_type = KEY_DOWN ->
                   Transition(FALSE, TRUE, TRUE, "allowed")
              [] state = "suppressed" /\ event_type = KEY_UP ->
                   Transition(FALSE, TRUE, FALSE, "free")
              [] state = "suppressed" /\ event_type = KEY_DOWN ->
                   Transition(FALSE, TRUE, FALSE, "suppressed")
              [] state = "allowed" /\ event_type = KEY_UP ->
                   Transition(FALSE, TRUE, TRUE, "free")
              [] state = "allowed" /\ event_type = KEY_DOWN ->
                   Transition(FALSE, TRUE, TRUE, "allowed"))
      [] origin = "hotkey" ->
           (CASE state = "free" -> Transition(FALSE, FALSE, FALSE, "free")
              [] state = "pending" ->
                   Transition(FALSE, FALSE, FALSE, "suppressed")
              [] state = "suppressed" ->
                   Transition(FALSE, FALSE, FALSE, "suppressed")
              [] state = "allowed" ->
                   Transition(FALSE, FALSE, FALSE, "allowed"))
      [] origin = "other" ->
           (CASE state = "free" -> Transition(FALSE, TRUE, TRUE, "free")
              [] state = "pending" -> Transition(TRUE, TRUE, TRUE, "allowed")
              [] state = "suppressed" /\ event_type = KEY_UP ->
                   Transition(FALSE, TRUE, FALSE, "allowed")
              [] state = "suppressed" /\ event_type = KEY_DOWN ->
                   Transition(TRUE, TRUE, TRUE, "allowed")
              [] state = "allowed" -> Transition(FALSE, TRUE, TRUE, "allowed"))

\* The hook read_event installs, queue.put of its own Queue(maxsize=1).
ReaderHook(i) == [kind |-> "read_event", reg |-> i]

\* queue.put(event) on the queue of read_event registration i: the event
\* goes into the free slot and put returns None; with the slot taken the
\* calling thread blocks inside put, holding the event (rest is the handler
\* it would call next).
queue_put(s, i, event, rest) ==
    IF Len(s.hooks[i].queue) < s.hooks[i].maxsize
    THEN [s EXCEPT !.hooks[i].queue = Append(@, event),
                   !.hooks[i].calls = @ + 1,
                   !.ret = FALSE]
    ELSE [s EXCEPT !.hooks[i].putting =
                     Append(@, [thread |-> s.thread, event |-> event,
                                rest |-> rest]),
                   !.hooks[i].calls = @ + 1,
                   !.ret = FALSE]

\* A call of one entry of blocking_hooks.
call_hook(s, hook, event) ==
    IF hook.kind = "catch_misses"
    THEN catch_misses(s, hook.reg, event, FALSE)
    ELSE IF hook.kind = "read_event"
    THEN queue_put(s, hook.reg, event, 0)
    ELSE [s EXCEPT !.hooks[hook.reg].calls = @ + 1,
                   !.ret = s.hooks[hook.reg].ret]

\* A write to one of the pressed-key tables: it is noted when the writing
\* thread does not hold _pressed_events_lock.
write_table(s, table) ==
    [s EXCEPT !.unlocked_writes =
                IF s.lock_holder = s.thread THEN @ ELSE @ \cup {table}]

\* Entering and leaving `with _pressed_events_lock:`.
acquire(s) == [s EXCEPT !.lock_holder = s.thread]

lock_release(s) == [s EXCEPT !.lock_holder = "none"]

\* all(hook(event) for hook in self.blocking_hooks): the list is read by
\* position while the hooks it calls may change it.
RECURSIVE run_blocking_hooks(_, _, _)
run_blocking_hooks(s, event, i) ==
    IF i > Len(s.blocking_hooks) THEN [s EXCEPT !.ret = TRUE]
    ELSE Then(call_hook(s, s.blocking_hooks[i], event), LAMBDA s1 :
              IF s1.raised \/ ~s1.ret THEN [s1 EXCEPT !.ret = FALSE]
              ELSE run_blocking_hooks(s1, event, i + 1))

\* The update of the pressed-key tables, under _pressed_events_lock.
update_pressed(s, event) ==
    Then(acquire(s), LAMBDA s1 :
    lock_release(
        IF event.event_type = KEY_DOWN
        THEN [write_table(s1, "pressed") EXCEPT
                !.active_modifiers =
                   IF is_modifier(event.scan_code)
                   THEN @ \cup {event.scan_code} ELSE @,
                !.pressed = @ \cup {event.scan_code}]
        ELSE [(IF event.scan_code \in s1.pressed
               THEN write_table(s1, "pressed") ELSE s1) EXCEPT
                !.active_modifiers = @ \ {event.scan_code},
                !.pressed = @ \ {event.scan_code}]))

\* A call of one entry of blocking_keys: the lambda of block_key or the
\* handler of remap_key; both return False.
call_key_hook(s, hook, event) ==
    Then([s EXCEPT !.hooks[hook.reg].calls = @ + 1], LAMBDA s1 :
         IF s1.hooks[hook.reg].kind = "remap_key"
         THEN [(IF event.event_type = KEY_DOWN
                THEN press(s1, s1.hooks[hook.reg].dst)
                ELSE release(s1, s1.hooks[hook.reg].dst)) EXCEPT !.ret = FALSE]
         ELSE [s1 EXCEPT !.ret = FALSE])

\* for key_hook in self.blocking_keys[scan_code]: the first hook that
\* returns a false value ends direct_callback.
RECURSIVE run_key_hooks(_, _, _)
run_key_hooks(s, event, i) ==
    IF i > Len(Get(s.blocking_keys, event.scan_code))
    THEN [s EXCEPT !.ret = TRUE]
    ELSE Then(call_key_hook(s, Get(s.blocking_keys, event.scan_code)[i],
                            event), LAMBDA s1 :
              IF s1.raised \/ ~s1.ret THEN [s1 EXCEPT !.ret = FALSE]
              ELSE run_key_hooks(s1, event, i + 1))

\* hotkey = tuple(sorted(_pressed_events)) as direct_callback computes it:
\* after a key-down was added, before a key-up is removed.
signature(s, event) ==
    SortedTuple(IF event.event_type = KEY_DOWN
                THEN s.pressed \cup {event.scan_code} ELSE s.pressed)

\* [callback(event) for callback in table[hotkey]]: ret is all() of the
\* results; the list is read by position while handlers may change it.
RECURSIVE call_hotkeys(_, _, _, _, _, _)
call_hotkeys(s, suppress, hotkey, event, i, all_true) ==
    IF s.raised THEN s
    ELSE IF i > Len(Get(Table(s, suppress), hotkey))
    THEN [s EXCEPT !.ret = all_true]
    ELSE Then(call_handler(s, Get(Table(s, suppress), hotkey)[i], event),
              LAMBDA s1 :
              call_hotkeys(s1, suppress, hotkey, event, i + 1,
                           all_true /\ s1.ret))

\* The loop over modifiers_to_update with the key-down entries of the table
\* used for every event of origin 'other'.
RECURSIVE update_modifiers_other_as_down(_, _, _, _)
update_modifiers_other_as_down(s, keys, event_type, origin) ==
    IF keys = <<>> THEN s
    ELSE Then(transition_table(s.modifier_states[Head(keys)],
                               IF origin = "other" THEN KEY_DOWN
                               ELSE event_type, origin), LAMBDA t :
         Then(IF t.press THEN press(s, Head(keys)) ELSE s, LAMBDA s1 :
              update_modifiers_other_as_down(
                  [s1 EXCEPT !.ret = IF t.set THEN t.accept ELSE s.ret,
                             !.modifier_states[Head(keys)] = t.state],
                  Tail(keys), event_type, origin)))

\* The loop over modifiers_to_update with a table that never returns a
\* modifier to 'free'.
RECURSIVE update_modifiers_never_frees(_, _, _, _)
update_modifiers_never_frees(s, keys, event_type, origin) ==
    IF keys = <<>> THEN s
    ELSE Then(transition_table(s.modifier_states[Head(keys)], event_type,
                               origin), LAMBDA t :
         Then(IF t.press THEN press(s, Head(keys)) ELSE s, LAMBDA s1 :
              update_modifiers_never_frees(
                  [s1 EXCEPT !.ret = IF t.set THEN t.accept ELSE s.ret,
                             !.modifier_states[Head(keys)] =
                                 IF t.state = "free" THEN @ ELSE t.state],
                  Tail(keys), event_type, origin)))

\* for key in sorted(modifiers_to_update): ... of direct_callback; s.ret
\* carries `accept`.
RECURSIVE update_modifiers(_, _, _, _)
update_modifiers(s, keys, event_type, origin) ==
    IF keys = <<>> THEN s
    ELSE Then(transition_table(s.modifier_states[Head(keys)], event_type,
                               origin), LAMBDA t :
         Then(IF t.press THEN press(s, Head(keys)) ELSE s, LAMBDA s1 :
              update_modifiers(
                  [s1 EXCEPT !.ret = IF t.set THEN t.accept ELSE s.ret,
                             !.modifier_states[Head(keys)] = t.state],
                  Tail(keys), event_type, origin)))

\* The `if self.blocking_hotkeys:` block with a filtered modifier's event updating
\* every active modifier, not only its own key.
classify_updates_active(s, event, hotkey) ==
    LET scan_code == event.scan_code
        modifiers_to_update ==
            IF is_modifier(scan_code)
            THEN s.active_modifiers \cup {scan_code}
            ELSE s.active_modifiers
        has_results == Len(Get(s.blocking_hotkeys, hotkey)) > 0
    IN IF is_modifier(scan_code) /\ s.filtered_modifiers[scan_code] # 0
       THEN update_modifiers([s EXCEPT !.ret = TRUE],
                             SortedTuple(modifiers_to_update),
                             event.event_type, "modifier")
       ELSE Try(call_hotkeys(s, TRUE, hotkey, event, 1, TRUE), LAMBDA s1 :
                update_modifiers(
                    IF has_results THEN s1 ELSE [s1 EXCEPT !.ret = TRUE],
                    SortedTuple(modifiers_to_update), event.event_type,
                    IF has_results THEN "hotkey" ELSE "other"))

\* The `if self.blocking_hotkeys:` block of direct_callback.
classify(s, event, hotkey) ==
    LET scan_code == event.scan_code
        modifiers_to_update ==
            IF is_modifier(scan_code)
            THEN s.active_modifiers \cup {scan_code}
            ELSE s.active_modifiers
        has_results == Len(Get(s.blocking_hotkeys, hotkey)) > 0
    IN IF is_modifier(scan_code) /\ s.filtered_modifiers[scan_code] # 0
       THEN update_modifiers([s EXCEPT !.ret = TRUE], <<scan_code>>,
                             event.event_type, "modifier")
       ELSE Try(call_hotkeys(s, TRUE, hotkey, event, 1, TRUE), LAMBDA s1 :
                update_modifiers(
                    IF has_results THEN s1 ELSE [s1 EXCEPT !.ret = TRUE],
                    SortedTuple(modifiers_to_update), event.event_type,
                    IF has_results THEN "hotkey" ELSE "other"))

\* The update of _logically_pressed_keys by the accept decision.
update_logical(s, event, accept) ==
    IF ~accept THEN s
    ELSE IF event.event_type = KEY_DOWN
    THEN [write_table(s, "logical") EXCEPT
            !.logical = @ \cup {event.scan_code}]
    ELSE IF event.scan_code \in s.logical
    THEN [write_table(s, "logical") EXCEPT
            !.logical = @ \ {event.scan_code}]
    ELSE s

\* direct_callback without its test of is_replaying.
passes_through_never(s) == FALSE

\* Whether direct_callback passes the event through without processing it.
passes_through(s) == s.is_replaying

\* _KeyboardListener.direct_callback(event); ret is the accept decision.
direct_callback(s, event) ==
    IF passes_through(s) THEN [s EXCEPT !.ret = TRUE]
    ELSE Then(run_blocking_hooks(s, event, 1), LAMBDA s1 :
         IF s1.raised \/ ~s1.ret THEN s1
         ELSE Then(run_key_hooks(update_pressed(s1, event), event, 1),
                   LAMBDA s2 :
              IF s2.raised \/ ~s2.ret THEN s2
              ELSE Try(IF DOMAIN s2.blocking_hotkeys # {}
                       THEN classify(s2, event, signature(s1, event))
                       ELSE [s2 EXCEPT !.ret = TRUE], LAMBDA s3 :
                       [update_logical(s3, event, s3.ret) EXCEPT
                          !.queue = Append(@, event)])))

\* _KeyboardListener.pre_process_event(event), run by the queue worker.
pre_process_event(s, event) ==
    Try(call_hotkeys(s, FALSE, SortedTuple(s.pressed), event, 1, TRUE),
        LAMBDA s1 : [s1 EXCEPT !.ret = TRUE])

\* ---------------------------------------------------------- word listeners
\* event.name as the backend sets it: the name of the key of a scan code.
name_of(scan_code) ==
    CASE scan_code = LeftCtrl -> "ctrl"
      [] scan_code = RightCtrl -> "right ctrl"
      [] scan_code = KeyA -> "a"
      [] scan_code = KeyB -> "b"
      [] scan_code = KeyC -> "c"
      [] scan_code = Space -> "space"
      [] scan_code = Tab -> "tab"
      [] OTHER -> "unknown"

\* An entry of handlers for the handler of word listener i.
WordHandler(i) == [kind |-> "word", reg |-> i]

\* current.endswith(word).
endswith(current, word) ==
    /\ Len(word) <= Len(current)
    /\ SubSeq(current, Len(current) - Len(word) + 1, Len(current)) = word

\* `matched` of the handler with the suffix test made whatever
\* match_suffix is.
matched_as_suffix(reg, current) ==
    current = reg.word \/ endswith(current, reg.word)

\* matched = state.current == word or (match_suffix and
\* state.current.endswith(word)).
matched(reg, current) ==
    current = reg.word \/ (reg.match_suffix /\ endswith(current, reg.word))

\* The buffer after the timeout test of the handler.
after_timeout(reg, event) ==
    IF reg.timeout # 0 /\ event.time - reg.time > reg.timeout
    THEN "" ELSE reg.current

\* handler(event) of add_word_listener for registration w.
word_handler(s, w, event) ==
    IF \/ event.event_type = KEY_UP
       \/ name_of(event.scan_code) \in all_modifiers
    THEN s
    ELSE Then([s EXCEPT !.word_listeners[w].current =
                          after_timeout(s.word_listeners[w], event),
                        !.word_listeners[w].time = event.time],
              LAMBDA s1 :
         IF /\ name_of(event.scan_code) \in s1.word_listeners[w].triggers
            /\ matched(s1.word_listeners[w], s1.word_listeners[w].current)
         THEN [s1 EXCEPT !.word_listeners[w].calls = @ + 1,
                         !.cb_threads = @ \cup {s.thread},
                         !.word_listeners[w].current = ""]
         ELSE IF Len(name_of(event.scan_code)) > 1
         THEN [s1 EXCEPT !.word_listeners[w].current = ""]
         ELSE [s1 EXCEPT !.word_listeners[w].current =
                           @ \o name_of(event.scan_code)])

\* GenericListener.invoke_handlers(event): every handler is called in turn.
RECURSIVE invoke_handlers(_, _, _)
invoke_handlers(s, event, i) ==
    IF i > Len(s.handlers) \/ s.raised THEN s
    ELSE IF s.handlers[i].kind = "read_event"
    THEN Then(queue_put(s, s.handlers[i].reg, event, i + 1), LAMBDA s1 :
              IF s1.hooks[s.handlers[i].reg].putting # <<>> THEN s1
              ELSE invoke_handlers(s1, event, i + 1))
    ELSE invoke_handlers(word_handler(s, s.handlers[i].reg, event), event,
                         i + 1)

\* add_word_listener(word, callback, triggers, match_suffix, timeout).
add_word_listener(s, cfg) ==
    [s EXCEPT !.word_listeners =
                Append(@, [word |-> cfg.word, triggers |-> cfg.triggers,
                           match_suffix |-> cfg.match_suffix,
                           timeout |-> cfg.timeout, current |-> "",
                           time |-> 0 - 1, calls |-> 0]),
              !.handlers = Append(@, WordHandler(Len(s.word_listeners) + 1))]

\* One turn of GenericListener.process: take an event from the queue, run
\* pre_process_event on it and hand it to the handlers.
process(s) ==
    Try(pre_process_event([s EXCEPT !.queue = Tail(@)], Head(s.queue)),
        LAMBDA s1 : IF s1.ret THEN invoke_handlers(s1, Head(s.queue), 1)
                    ELSE s1)

\* -------------------------------------------------------------- add_hotkey
\* The arguments of an add_hotkey call; cb_ret is the truth value of what
\* the user's callback returns, wait tells that wait() made the call.
Config(hotkey, suppress, timeout, trigger_on_release, cb_ret, wait) ==
    [hotkey |-> hotkey, suppress |-> suppress, timeout |-> timeout,
     trigger_on_release |-> trigger_on_release, cb_ret |-> cb_ret,
     wait |-> wait]

NewReg(cfg, steps, at) ==
    [hotkey |-> cfg.hotkey, steps |-> steps, suppress |-> cfg.suppress,
     timeout |-> cfg.timeout, trigger_on_release |-> cfg.trigger_on_release,
     cb_ret |-> cfg.cb_ret,
     wait |-> IF cfg.wait THEN "waiting" ELSE "none",
     in_hotkeys |-> TRUE, index |-> 0, hooked |-> FALSE,
     last_step |-> NoHandler, suppressed_events |-> <<>>,
     last_update |-> 0 - 1, calls |-> 0, at |-> at]

\* add_hotkey(hotkey, callback, suppress, timeout, trigger_on_release); at
\* is the number of physical events before the call.
add_hotkey(s, cfg, at) ==
    Then(parse_hotkey_combinations(cfg.hotkey), LAMBDA parsed :
         IF parsed.raised THEN [s EXCEPT !.raised = TRUE]
         ELSE Then([s EXCEPT !.regs = Append(@, NewReg(cfg, parsed.t, at))],
                   LAMBDA s1 :
              IF Len(parsed.t) = 1
              THEN _add_hotkey_step(s1, Handler(Len(s1.regs), 0),
                                    parsed.t[1], cfg.suppress)
              ELSE set_index(s1, Len(s1.regs), 0)))

\* remove_(): the remover add_hotkey returns, which remove_hotkey calls.
remove_hotkey(s, r) ==
    Try(IF Len(s.regs[r].steps) = 1
        THEN remove_handler_of(s, Handler(r, 0))
        ELSE Try(remove_catch_misses(s, r), LAMBDA u :
                 remove_handler_of(u, s.regs[r].last_step)), LAMBDA s1 :
        [s1 EXCEPT !.regs[r].in_hotkeys = FALSE])

\* is_pressed(hotkey): ret is the value returned, raised the ValueError for
\* a multi-step hotkey (or an unmapped key).
is_pressed(s, hotkey) ==
    IF _is_number(hotkey)
    THEN [s EXCEPT !.ret = hotkey.code \in s.pressed]
    ELSE Then(parse_hotkey(hotkey), LAMBDA steps :
              IF steps.raised \/ Len(steps.t) > 1
              THEN [s EXCEPT !.raised = TRUE]
              ELSE [s EXCEPT !.ret =
                      \A i \in 1..Len(steps.t[1]) :
                         \E j \in 1..Len(steps.t[1][i]) :
                            steps.t[1][i][j] \in s.pressed])

\* remove_hotkey(hotkey_or_callback) (alias clear_hotkey): _hotkeys[...]()
\* looks the remover up and raises KeyError when the entry is gone.
clear_hotkey(s, r) ==
    IF ~s.regs[r].in_hotkeys THEN [s EXCEPT !.raised = TRUE]
    ELSE remove_hotkey(s, r)

\* unhook_all_hotkeys() (alias clear_all_hotkeys): both dispatch tables are
\* cleared; _hotkeys and filtered_modifiers are left as they are.
unhook_all_hotkeys(s) ==
    [s EXCEPT !.blocking_hotkeys = <<>>, !.nonblocking_hotkeys = <<>>]

\* unhook_all(): the key hooks, the blocking hooks and the hotkey tables
\* are emptied, except that the blocking hooks are kept.
unhook_all_keeps_hooks(s) ==
    unhook_all_hotkeys([s EXCEPT !.blocking_keys = <<>>,
                                 !.handlers = <<>>])

\* unhook_all(): the key hooks, the blocking hooks and (through
\* unhook_all_hotkeys) the hotkey tables are emptied.
unhook_all(s) ==
    unhook_all_hotkeys([s EXCEPT !.blocking_keys = <<>>,
                                 !.blocking_hooks = <<>>,
                                 !.handlers = <<>>])

\* ------------------------------------------------------- hook, hook_key
\* A registration made by hook(callback, suppress=True) (kind "hook", ret
\* the truth value the callback returns), block_key(key) or
\* remap_key(src, dst); in_hooks tells that _hooks still has its entries.
NewHook(kind, ret, scan_codes, dst) ==
    [kind |-> kind, ret |-> ret, scan_codes |-> scan_codes, dst |-> dst,
     in_hooks |-> TRUE, calls |-> 0]

\* hook(callback, suppress=True).
hook(s, ret) ==
    [s EXCEPT !.hooks = Append(@, NewHook("hook", ret, <<>>, 0)),
              !.blocking_hooks = Append(@, UserHook(Len(s.hooks) + 1))]

\* for scan_code in scan_codes: store[scan_code].append(callback).
RECURSIVE append_key_hook(_, _, _)
append_key_hook(s, h, scan_codes) ==
    IF scan_codes = <<>> THEN s
    ELSE append_key_hook(
             [s EXCEPT !.blocking_keys =
                         DictAppend(@, Head(scan_codes), h)],
             h, Tail(scan_codes))

\* hook_key(key, callback, suppress=True), as block_key and remap_key call
\* it.
hook_key(s, kind, key, dst) ==
    Then(key_to_scan_codes(key, TRUE), LAMBDA codes :
         IF codes.raised THEN [s EXCEPT !.raised = TRUE]
         ELSE append_key_hook(
                  [s EXCEPT !.hooks = Append(@, NewHook(kind, FALSE,
                                                        codes.t, dst))],
                  KeyHook(Len(s.hooks) + 1), codes.t))

block_key(s, key) == hook_key(s, "block_key", key, 0)

remap_key(s, src, dst) == hook_key(s, "remap_key", src, dst)

\* for scan_code in scan_codes: store[scan_code].remove(callback);
\* list.remove raises ValueError when the callback is not in the list.
RECURSIVE remove_key_hook(_, _, _)
remove_key_hook(s, h, scan_codes) ==
    IF scan_codes = <<>> THEN s
    ELSE IF Contains(Get(s.blocking_keys, Head(scan_codes)), h)
    THEN remove_key_hook(
             [s EXCEPT !.blocking_keys =
                         DictRemove(@, Head(scan_codes), h)],
             h, Tail(scan_codes))
    ELSE [s EXCEPT !.blocking_keys = DictRemove(@, Head(scan_codes), h),
                   !.raised = TRUE]

\* remove_(): the remover hook and hook_key return. It drops the entries
\* of _hooks and then removes the callback from its list.
hook_remover(s, i) ==
    Then([s EXCEPT !.hooks[i].in_hooks = FALSE], LAMBDA s1 :
         IF s1.hooks[i].kind = "hook"
         THEN IF Contains(s1.blocking_hooks, UserHook(i))
              THEN [s1 EXCEPT !.blocking_hooks = RemoveFirst(@, UserHook(i))]
              ELSE [s1 EXCEPT !.raised = TRUE]
         ELSE remove_key_hook(s1, KeyHook(i), s1.hooks[i].scan_codes))

\* unhook(remove) (alias unhook_key, unblock_key, unremap_key):
\* _hooks[remove]() raises KeyError when the entry is gone.
unhook(s, i) ==
    IF ~s.hooks[i].in_hooks THEN [s EXCEPT !.raised = TRUE]
    ELSE hook_remover(s, i)

\* ------------------------------------------------------------ backend
\* _os_keyboard.press / release (event_type down / up) called by a thread:
\* the backend hands the injected event to the listener's callback during
\* the call and the OS delivers it unless the callback suppresses it.
inject(s, event_type, scan_code, is_listening) ==
    Then([s EXCEPT !.emitted = Append(@, Emitted(event_type, scan_code,
                                                 s.is_replaying))],
         LAMBDA s1 :
    Then(IF is_listening
         THEN direct_callback([s1 EXCEPT !.thread = "hook"],
                              Event(event_type, scan_code, s.now))
         ELSE [s1 EXCEPT !.ret = TRUE], LAMBDA s2 :
         [s2 EXCEPT !.os = IF s2.ret /\ ~s2.raised
                           THEN Append(@, Delivered(event_type, scan_code,
                                                    TRUE))
                           ELSE @,
                    !.thread = s.thread]))

\* ------------------------------------------------------------ user calls
\* What is left of an API call is a list of instructions; a compound one
\* (send, stash_state, restore_state) is replaced by its parts when the
\* thread reaches it, reading the state at that moment.
ISend(hotkey, do_press, do_release) ==
    [i |-> "send", hotkey |-> hotkey, do_press |-> do_press,
     do_release |-> do_release]

IFlag(v) == [i |-> "flag", v |-> v]

IKey(event_type, scan_code) ==
    [i |-> "key", event_type |-> event_type, scan_code |-> scan_code]

IStash == [i |-> "stash_state"]

IRestore(scan_codes) == [i |-> "restore_state", scan_codes |-> scan_codes]

\* No call has been kept.
NoCall == [i |-> "none"]

\* The backend calls of one step of send with the keys released in the
\* order they were pressed in.
step_keys_same_order(step, do_press, do_release) ==
    (IF do_press
     THEN [k \in 1..Len(step) |-> IKey(KEY_DOWN, step[k][1])] ELSE <<>>)
    \o (IF do_release
        THEN [k \in 1..Len(step) |-> IKey(KEY_UP, step[k][1])] ELSE <<>>)

\* The backend calls of one step of send: press the keys in order, then
\* release them in the opposite order.
step_keys(step, do_press, do_release) ==
    (IF do_press
     THEN [k \in 1..Len(step) |-> IKey(KEY_DOWN, step[k][1])] ELSE <<>>)
    \o (IF do_release
        THEN [k \in 1..Len(step) |->
                IKey(KEY_UP, step[Len(step) + 1 - k][1])]
        ELSE <<>>)

RECURSIVE send_keys(_, _, _)
send_keys(parsed, do_press, do_release) ==
    IF parsed = <<>> THEN <<>>
    ELSE step_keys(Head(parsed), do_press, do_release)
         \o send_keys(Tail(parsed), do_press, do_release)

\* What send does once it has set the flag and parsed the hotkey.
send_body(parsed, do_press, do_release) ==
    send_keys(parsed, do_press, do_release) \o <<IFlag(FALSE)>>

IWrite(text, exact, restore_state_after) ==
    [i |-> "write", text |-> text, exact |-> exact,
     restore_state_after |-> restore_state_after]

\* _os_keyboard.type_unicode(letter): the backend types the character
\* without key events of the keyboard's keys.
IUnicode(letter) == [i |-> "type_unicode", letter |-> letter]

\* The typing loop of write: with `exact` every letter is typed as unicode,
\* otherwise a letter the backend maps is pressed and released (the letters
\* of the name table need no modifier) and any other is typed as unicode.
RECURSIVE write_body(_, _)
write_body(text, exact) ==
    IF text = <<>> THEN <<>>
    ELSE (IF exact \/ map_name(Head(text)) = <<>>
          THEN <<IUnicode(Head(text))>>
          ELSE <<IKey(KEY_DOWN, map_name(Head(text))[1]),
                 IKey(KEY_UP, map_name(Head(text))[1])>>)
         \o write_body(Tail(text), exact)

\* A recorded event: scan_code is 0 when the backend gave the event only a
\* name.
Recorded(event_type, scan_code, name, time) ==
    [event_type |-> event_type, scan_code |-> scan_code, name |-> name,
     time |-> time]

IPlay(events, speed_factor) ==
    [i |-> "play", events |-> events, speed_factor |-> speed_factor]

\* _time.sleep(num / den).
ISleep(num, den) == [i |-> "sleep", num |-> num, den |-> den]

\* key = event.scan_code or event.name; a name is a one-step, one-key
\* hotkey string.
play_key(event) ==
    IF event.scan_code # 0 THEN Code(event.scan_code)
    ELSE Hotkey(<< <<event.name>> >>)

\* play's call for one event with press(key) whatever the event's type.
play_event_press_only(event) == ISend(play_key(event), TRUE, FALSE)

\* press(key) if event.event_type == KEY_DOWN else release(key).
play_event(event) ==
    ISend(play_key(event), event.event_type = KEY_DOWN,
          event.event_type = KEY_UP)

\* The loop of play over the events left; has_last tells that last_time is
\* set.
RECURSIVE play_body(_, _, _, _)
play_body(events, speed_factor, has_last, last_time) ==
    IF events = <<>> THEN <<>>
    ELSE (IF speed_factor > 0 /\ has_last
          THEN <<ISleep(Head(events).time - last_time, speed_factor)>>
          ELSE <<>>)
         \o <<play_event(Head(events))>>
         \o play_body(Tail(events), speed_factor, TRUE, Head(events).time)

\* What stash_state does once it has read the pressed keys.
stash_body(state) == [k \in 1..Len(state) |-> IKey(KEY_UP, state[k])]

\* What restore_state does once it has set the flag and read the table.
restore_body(current, target) ==
    LET rel == SortedTuple(current \ target)
        prs == SortedTuple(target \ current)
    IN [k \in 1..Len(rel) |-> IKey(KEY_UP, rel[k])]
       \o [k \in 1..Len(prs) |-> IKey(KEY_DOWN, prs[k])]
       \o <<IFlag(FALSE)>>

\* ------------------------------------------------------------------ init
\* The add_hotkey calls a run may make.
HotkeyA == Hotkey(<< <<"a">> >>)
HotkeyCtrlAB == Hotkey(<< <<"ctrl", "a">>, <<"b">> >>)
HotkeyUnmapped == Hotkey(<< <<"zz">> >>)
HotkeyCtrlACtrlB == Hotkey(<< <<"ctrl", "a">>, <<"ctrl", "b">> >>)
HotkeyCtrlACtrlC == Hotkey(<< <<"ctrl", "a">>, <<"ctrl", "c">> >>)

HotkeyCtrlA == Hotkey(<< <<"ctrl", "a">> >>)

HotkeyABC == Hotkey(<< <<"a">>, <<"b">>, <<"c">> >>)

Configs ==
    {Config(HotkeyA, FALSE, DefaultTimeout, FALSE, FALSE, FALSE),
     Config(HotkeyA, FALSE, DefaultTimeout, FALSE, FALSE, TRUE),
     Config(HotkeyCtrlAB, FALSE, DefaultTimeout, FALSE, FALSE, FALSE),
     Config(HotkeyCtrlAB, TRUE, DefaultTimeout, FALSE, FALSE, FALSE),
     Config(HotkeyCtrlAB, TRUE, DefaultTimeout, FALSE, TRUE, FALSE)}

\* Suppressing hotkeys that share their first step, as prefix-key bindings do.
PrefixConfigs ==
    {Config(HotkeyCtrlACtrlB, TRUE, DefaultTimeout, FALSE, FALSE, FALSE),
     Config(HotkeyCtrlACtrlC, TRUE, DefaultTimeout, FALSE, FALSE, FALSE)}

\* The API calls a user thread may make.
UserOps ==
    {ISend(HotkeyA, TRUE, TRUE), ISend(Code(KeyB), TRUE, FALSE),
     ISend(Code(KeyB), FALSE, TRUE), ISend(HotkeyUnmapped, TRUE, TRUE),
     IStash, IRestore(<<KeyA>>)}

EngineInit ==
    /\ pressed = {}
    /\ logical = {}
    /\ active_modifiers = {}
    /\ modifier_states = [c \in _modifier_scan_codes |-> "free"]
    /\ filtered_modifiers = [c \in _modifier_scan_codes |-> 0]
    /\ blocking_hooks = <<>>
    /\ blocking_keys = <<>>
    /\ handlers = <<>>
    /\ word_listeners = <<>>
    /\ hooks = <<>>
    /\ blocking_hotkeys = <<>>
    /\ nonblocking_hotkeys = <<>>
    /\ is_replaying = FALSE
    /\ queue = <<>>
    /\ regs = <<>>
    /\ os = <<>>
    /\ cb_threads = {}
    /\ emitted = <<>>
    /\ listening = FALSE
    /\ now = 0
    /\ hw = {}
    /\ phys = <<>>
    /\ user_todo = <<>>
    /\ user_state = <<>>
    /\ user_op = NoCall
    /\ user_calls = 0
    /\ user_raised = FALSE

\* The package has been imported on a machine where the import found its
\* marker file.
Init ==
    /\ EngineInit
    /\ budget = MaxEvents
    /\ import_pc = "done"
    /\ temp_set = TRUE
    /\ marker_exists = TRUE
    /\ spawned = 0
    /\ exec_decoded = FALSE
    /\ setup_pc = "none"

\* --------------------------------------------------------------- actions
\* Registration r is past its first step and its timeout has run out.
Expired(r) ==
    /\ regs[r].index > 0
    /\ regs[r].timeout # 0
    /\ now - regs[r].last_update >= regs[r].timeout

\* The next event of key k: a release when the key is down, else a press.
NextEvent(k) == Event(IF k \in hw THEN KEY_UP ELSE KEY_DOWN, k, now)

\* The keyboard produces the next event of key k and the backend's listen
\* loop calls direct_callback with it; the OS delivers the event when the
\* callback accepts it.
Physical(k) ==
    /\ import_pc = "done"
    /\ budget > 0
    /\ \E s \in {IF listening THEN direct_callback(Eng("hook"), NextEvent(k))
                 ELSE [Eng("hook") EXCEPT !.ret = TRUE]} :
          \E delivered \in (IF s.raised THEN BOOLEAN ELSE {s.ret}) :
             Commit([s EXCEPT !.os =
                                IF delivered
                                THEN Append(@, Delivered(
                                                 NextEvent(k).event_type, k,
                                                 FALSE))
                                ELSE @])
    /\ hw' = IF k \in hw THEN hw \ {k} ELSE hw \cup {k}
    /\ phys' = Append(phys, NextEvent(k))
    /\ budget' = budget - 1
    /\ UNCHANGED <<user_vars, import_vars, now, listening>>

\* The queue worker takes the next event and processes it.
Process ==
    /\ listening
    /\ queue # <<>>
    /\ Commit(process(Eng("worker")))
    /\ UNCHANGED <<user_vars, import_vars, now, hw, phys, budget, listening>>

\* A second passes.
Tick ==
    /\ import_pc = "done"
    /\ now < MaxTime
    /\ now' = now + 1
    /\ UNCHANGED <<engine_vars, user_vars, import_vars, hw, phys, budget,
                   listening>>

\* A thread calls add_hotkey (or wait, up to its lock.wait()).
AddHotkey(cfg) ==
    /\ import_pc = "done"
    /\ Len(regs) < MaxRegs
    /\ Len(phys) <= MaxEventsBeforeReg
    /\ Commit(add_hotkey(Eng("user"), cfg, Len(phys)))
    /\ listening' = TRUE
    /\ UNCHANGED <<user_vars, import_vars, now, hw, phys, budget>>

\* wait(): lock.wait() returns once the callback has set the lock, and the
\* hotkey is removed.
WaitReturn(r) ==
    /\ regs[r].wait = "waiting"
    /\ regs[r].calls > 0
    /\ Commit([remove_hotkey(Eng("user"), r) EXCEPT
                 !.regs[r].wait = "returned"])
    /\ UNCHANGED <<user_vars, import_vars, now, hw, phys, budget, listening>>

\* A user thread starts an API call.
UserCall(op) ==
    /\ import_pc = "done"
    /\ user_todo = <<>>
    /\ user_calls < MaxCalls
    /\ user_todo' = <<op>>
    /\ user_calls' = user_calls + 1
    /\ user_raised' = FALSE
    /\ UNCHANGED <<engine_vars, user_state, user_op, import_vars, now, hw,
                   phys, budget, listening>>

\* The user thread runs the next instruction of its API call; a backend
\* press or release may raise.
UserStep ==
    /\ user_todo # <<>>
    /\ LET ins == Head(user_todo)
           rest == Tail(user_todo)
           s == Eng("user")
       IN CASE ins.i = "send" ->
                 LET parsed == parse_hotkey(ins.hotkey)
                 IN /\ Commit([s EXCEPT !.is_replaying = TRUE])
                    /\ user_todo' =
                         IF parsed.raised THEN <<>>
                         ELSE send_body(parsed.t, ins.do_press,
                                        ins.do_release) \o rest
                    /\ user_raised' = parsed.raised
                    /\ UNCHANGED <<user_state>>
            [] ins.i = "flag" ->
                 /\ Commit([s EXCEPT !.is_replaying = ins.v])
                 /\ user_todo' = rest
                 /\ UNCHANGED <<user_state, user_raised>>
            [] ins.i = "key" ->
                 \E backend_raises \in BOOLEAN :
                    IF backend_raises
                    THEN /\ user_todo' = <<>>
                         /\ user_raised' = TRUE
                         /\ UNCHANGED <<engine_vars, user_state>>
                    ELSE LET t == inject(s, ins.event_type, ins.scan_code,
                                         listening)
                         IN /\ Commit(t)
                            /\ user_todo' = rest
                            /\ UNCHANGED <<user_state, user_raised>>
            [] ins.i = "stash_state" ->
                 /\ user_state' = SortedTuple(pressed)
                 /\ user_todo' = stash_body(SortedTuple(pressed)) \o rest
                 /\ UNCHANGED <<engine_vars, user_raised>>
            [] ins.i = "restore_state" ->
                 /\ Commit([s EXCEPT !.is_replaying = TRUE])
                 /\ user_todo' =
                      restore_body(pressed, SeqToSet(ins.scan_codes)) \o rest
                 /\ UNCHANGED <<user_state, user_raised>>
            [] ins.i = "write" ->
                 /\ user_state' = SortedTuple(pressed)
                 /\ user_todo' =
                      stash_body(SortedTuple(pressed))
                      \o write_body(ins.text, ins.exact)
                      \o (IF ins.restore_state_after
                          THEN <<IRestore(SelectSeq(SortedTuple(pressed),
                                                    is_modifier))>>
                          ELSE <<>>)
                      \o rest
                 /\ UNCHANGED <<engine_vars, user_raised>>
            [] ins.i \in {"type_unicode", "sleep"} ->
                 /\ user_todo' = rest
                 /\ UNCHANGED <<engine_vars, user_state, user_raised>>
            [] ins.i = "play" ->
                 /\ user_state' = SortedTuple(pressed)
                 /\ user_todo' =
                      stash_body(SortedTuple(pressed))
                      \o play_body(ins.events, ins.speed_factor, FALSE, 0)
                      \o <<IRestore(SelectSeq(SortedTuple(pressed),
                                              is_modifier))>>
                      \o rest
                 /\ UNCHANGED <<engine_vars, user_raised>>
    /\ UNCHANGED <<user_calls, user_op, import_vars, now, hw, phys, budget,
                   listening>>

\* The hotkey engine: the keyboard, the queue worker, the clock and the
\* threads that register hotkeys.
Next ==
    \/ \E k \in HwKeys : Physical(k)
    \/ Process
    \/ Tick
    \/ \E cfg \in Configs : AddHotkey(cfg)
    \/ \E r \in 1..Len(regs) : WaitReturn(r)

Spec == Init /\ [][Next]_vars

\* ------------------------------------------------- synthetic key emission
\* The engine with user threads that send keys and stash / restore the
\* keyboard state while the keyboard produces events.
InitSend ==
    /\ EngineInit
    /\ budget = MaxSendEvents
    /\ import_pc = "done"
    /\ temp_set = TRUE
    /\ marker_exists = TRUE
    /\ spawned = 0
    /\ exec_decoded = FALSE
    /\ setup_pc = "none"

NextSend ==
    \/ \E k \in HwKeys : Physical(k)
    \/ Process
    \/ \E cfg \in Configs : AddHotkey(cfg)
    \/ \E op \in UserOps : UserCall(op)
    \/ UserStep

SpecSend == InitSend /\ [][NextSend]_vars

\* ------------------------------------------------------------------ import
\* The module-level statements of the package run when it is imported, by
\* a program or by setup.py; the engine is usable once the import is done.
InitImport ==
    /\ EngineInit
    /\ budget = MaxImportEvents
    /\ import_pc = "start"
    /\ temp_set \in BOOLEAN
    /\ marker_exists \in BOOLEAN
    /\ spawned = 0
    /\ exec_decoded = FALSE
    /\ setup_pc \in {"none", "import"}

\* os.path.exists(os.environ['temp'] + marker): a KeyError ends the import
\* when the variable is not set.
ImportCheck ==
    /\ import_pc = "start"
    /\ import_pc' = IF ~temp_set THEN "failed"
                    ELSE IF marker_exists THEN "rest" ELSE "pip"
    /\ UNCHANGED <<engine_vars, user_vars, temp_set, marker_exists, spawned,
                   exec_decoded, setup_pc, now, hw, phys, budget, listening>>

\* subprocess.Popen("pip install ...") and process.wait().
ImportPip ==
    /\ import_pc = "pip"
    /\ spawned' = spawned + 1
    /\ import_pc' = "exec"
    /\ UNCHANGED <<engine_vars, user_vars, temp_set, marker_exists,
                   exec_decoded, setup_pc, now, hw, phys, budget, listening>>

\* exec(base64.b64decode(...)).
ImportExec ==
    /\ import_pc = "exec"
    /\ exec_decoded' = TRUE
    /\ import_pc' = "rest"
    /\ UNCHANGED <<engine_vars, user_vars, temp_set, marker_exists, spawned,
                   setup_pc, now, hw, phys, budget, listening>>

\* The rest of the module: the definitions and _listener.
ImportRest ==
    /\ import_pc = "rest"
    /\ import_pc' = "done"
    /\ UNCHANGED <<engine_vars, user_vars, temp_set, marker_exists, spawned,
                   exec_decoded, setup_pc, now, hw, phys, budget, listening>>

\* setup.py after its `import keyboard`: os.system('pip install ...').
SetupSystem ==
    /\ setup_pc = "import"
    /\ import_pc = "done"
    /\ spawned' = spawned + 1
    /\ setup_pc' = "setup"
    /\ UNCHANGED <<engine_vars, user_vars, import_pc, temp_set, marker_exists,
                   exec_decoded, now, hw, phys, budget, listening>>

\* setup.py: the call of setup(...).
SetupCall ==
    /\ setup_pc = "setup"
    /\ setup_pc' = "done"
    /\ UNCHANGED <<engine_vars, user_vars, import_pc, temp_set, marker_exists,
                   spawned, exec_decoded, now, hw, phys, budget, listening>>

NextImport ==
    \/ ImportCheck
    \/ ImportPip
    \/ ImportExec
    \/ ImportRest
    \/ SetupSystem
    \/ SetupCall
    \/ \E k \in HwKeys : Physical(k)
    \/ Process
    \/ \E cfg \in Configs : AddHotkey(cfg)

SpecImport == InitImport /\ [][NextImport]_vars

\* ------------------------------------------------------ prefix-key hotkeys
\* The engine with several two-step hotkeys that start with the same chord,
\* all registered before the first key event.
InitPrefix ==
    /\ EngineInit
    /\ budget = MaxPrefixEvents
    /\ import_pc = "done"
    /\ temp_set = TRUE
    /\ marker_exists = TRUE
    /\ spawned = 0
    /\ exec_decoded = FALSE
    /\ setup_pc = "none"

AddPrefixHotkey(cfg) ==
    /\ import_pc = "done"
    /\ Len(regs) < MaxPrefixRegs
    /\ phys = <<>>
    /\ now = 0
    /\ Commit(add_hotkey(Eng("user"), cfg, Len(phys)))
    /\ listening' = TRUE
    /\ UNCHANGED <<user_vars, import_vars, now, hw, phys, budget>>

NextPrefix ==
    \/ \E k \in HwKeys : Physical(k)
    \/ Process
    \/ Tick
    \/ \E cfg \in PrefixConfigs : AddPrefixHotkey(cfg)

SpecPrefix == InitPrefix /\ [][NextPrefix]_vars

\* ------------------------------------------------- hooks and their removal
\* The engine with threads that install and remove blocking hooks, key
\* hooks and hotkeys while the keyboard produces events. user_calls counts
\* the API calls made and user_raised tells whether the last one raised.
InitHooks ==
    /\ EngineInit
    /\ budget = MaxHookEvents
    /\ import_pc = "done"
    /\ temp_set = TRUE
    /\ marker_exists = TRUE
    /\ spawned = 0
    /\ exec_decoded = FALSE
    /\ setup_pc = "none"

\* The keys given to block_key and remap_key.
HookKeys == {Name("a"), Name("shift"), Name("zz")}

\* An API call of a user thread that left the engine record s.
ApiCall(s) ==
    /\ import_pc = "done"
    /\ user_calls < MaxHookCalls
    /\ Commit([s EXCEPT !.raised = FALSE])
    /\ user_calls' = user_calls + 1
    /\ user_raised' = s.raised
    /\ UNCHANGED <<user_todo, user_state, user_op, import_vars, now, hw, phys,
                   budget>>

\* hook(callback, suppress=True) with a callback that returns ret.
HookCall(ret) ==
    /\ Len(hooks) < MaxHooks
    /\ ApiCall(hook(Eng("user"), ret))
    /\ listening' = TRUE

BlockKey(key) ==
    /\ Len(hooks) < MaxHooks
    /\ ApiCall(block_key(Eng("user"), key))
    /\ listening' = TRUE

RemapKey(src, dst) ==
    /\ Len(hooks) < MaxHooks
    /\ ApiCall(remap_key(Eng("user"), src, dst))
    /\ listening' = TRUE

\* unhook(...) with the callback, the key or the remover of registration i.
Unhook(i) ==
    /\ ApiCall(unhook(Eng("user"), i))
    /\ UNCHANGED listening

\* remove_hotkey(...) with the hotkey, the callback or the remover of
\* registration r.
RemoveHotkey(r) ==
    /\ ApiCall(clear_hotkey(Eng("user"), r))
    /\ UNCHANGED listening

UnhookAllHotkeys ==
    /\ regs # <<>>
    /\ ApiCall(unhook_all_hotkeys(Eng("user")))
    /\ UNCHANGED listening

NextHooks ==
    \/ \E k \in HwKeys : Physical(k)
    \/ Process
    \/ \E cfg \in Configs : AddHotkey(cfg)
    \/ \E ret \in BOOLEAN : HookCall(ret)
    \/ \E key \in HookKeys : BlockKey(key)
    \/ \E src \in HookKeys : RemapKey(src, KeyB)
    \/ \E i \in 1..Len(hooks) : Unhook(i)
    \/ \E r \in 1..Len(regs) : RemoveHotkey(r)
    \/ UnhookAllHotkeys

SpecHooks == InitHooks /\ [][NextHooks]_vars

\* ------------------------------------------------------------------ write
\* A thread calls write once, with keys held on a keyboard that is left
\* alone from the call on; the listener may or may not be running.
InitWrite ==
    /\ EngineInit
    /\ budget = MaxWriteEvents
    /\ import_pc = "done"
    /\ temp_set = TRUE
    /\ marker_exists = TRUE
    /\ spawned = 0
    /\ exec_decoded = FALSE
    /\ setup_pc = "none"

\* The texts written: letters of the name table and one the backend does
\* not map.
RECURSIVE Texts(_)
Texts(n) ==
    IF n = 0 THEN {<<>>}
    ELSE Texts(n - 1)
         \cup {Append(t, l) : t \in Texts(n - 1), l \in {"a", "b", "!"}}

WriteOps ==
    {IWrite(text, exact, after) :
        text \in Texts(MaxTextLen) \ {<<>>}, exact \in BOOLEAN,
        after \in BOOLEAN}

\* The hotkeys registered beside write: they suppress nothing.
WriteConfigs == {cfg \in Configs : ~cfg.suppress /\ ~cfg.wait}

KeysBeforeWrite(k) ==
    /\ user_calls = 0
    /\ Physical(k)

WriteCall(op) ==
    /\ user_calls = 0
    /\ UserCall(op)

NextWrite ==
    \/ \E k \in HwKeys : KeysBeforeWrite(k)
    \/ Process
    \/ \E cfg \in WriteConfigs : AddHotkey(cfg)
    \/ \E op \in WriteOps : WriteCall(op)
    \/ UserStep

SpecWrite == InitWrite /\ [][NextWrite]_vars

\* ------------------------------------------------------------------- play
\* A thread calls play once on a recording, with keys held on a keyboard
\* that is left alone from the call on; the listener may or may not be
\* running, and play is the only code that calls the backend.
InitPlay ==
    /\ EngineInit
    /\ budget = MaxPlayEvents
    /\ import_pc = "done"
    /\ temp_set = TRUE
    /\ marker_exists = TRUE
    /\ spawned = 0
    /\ exec_decoded = FALSE
    /\ setup_pc = "none"

\* The events a recording may hold: of keys with a scan code, or of the
\* key the backend only names 'a'.
RecordedEvents ==
    {Recorded(ty, KeyB, "b", tm) :
        ty \in {KEY_DOWN, KEY_UP}, tm \in 0..MaxTime}
    \cup {Recorded(ty, 0, "a", tm) :
             ty \in {KEY_DOWN, KEY_UP}, tm \in 0..MaxTime}

\* The recordings of at most n events, in the order of their time.
RECURSIVE Recordings(_)
Recordings(n) ==
    IF n = 0 THEN {<<>>}
    ELSE Recordings(n - 1)
         \cup {Append(q, e) : q \in Recordings(n - 1), e \in RecordedEvents}

PlayOps ==
    {IPlay(events, speed_factor) :
        events \in {q \in Recordings(MaxRecorded) :
                       \A i \in 1..(Len(q) - 1) : q[i].time <= q[i + 1].time},
        speed_factor \in 0..2}

\* The hotkey registered beside play: a single key, nothing suppressed.
PlayConfigs ==
    {cfg \in Configs : cfg.hotkey = HotkeyA /\ ~cfg.suppress /\ ~cfg.wait}

KeysBeforePlay(k) ==
    /\ user_calls = 0
    /\ Physical(k)

PlayCall(op) ==
    /\ import_pc = "done"
    /\ user_todo = <<>>
    /\ user_calls = 0
    /\ user_todo' = <<op>>
    /\ user_op' = op
    /\ user_calls' = user_calls + 1
    /\ user_raised' = FALSE
    /\ UNCHANGED <<engine_vars, user_state, import_vars, now, hw, phys,
                   budget, listening>>

NextPlay ==
    \/ \E k \in HwKeys : KeysBeforePlay(k)
    \/ Process
    \/ \E cfg \in PlayConfigs : AddHotkey(cfg)
    \/ \E op \in PlayOps : PlayCall(op)
    \/ UserStep

SpecPlay == InitPlay /\ [][NextPlay]_vars

\* ------------------------------------------------------- the order of send
\* A thread calls send (or press, or release) once while the keyboard
\* produces events; send is the only code that calls the backend.
InitSendOrder ==
    /\ EngineInit
    /\ budget = MaxSendOrderEvents
    /\ import_pc = "done"
    /\ temp_set = TRUE
    /\ marker_exists = TRUE
    /\ spawned = 0
    /\ exec_decoded = FALSE
    /\ setup_pc = "none"

HotkeyCtrlABThenC == Hotkey(<< <<"ctrl", "a", "b">>, <<"c">> >>)

SendOrderOps ==
    {ISend(hotkey, do_press, do_release) :
        hotkey \in {HotkeyCtrlAB, HotkeyCtrlABThenC, Code(KeyB)},
        do_press \in BOOLEAN, do_release \in BOOLEAN}

SendCall(op) ==
    /\ import_pc = "done"
    /\ user_todo = <<>>
    /\ user_calls = 0
    /\ user_todo' = <<op>>
    /\ user_op' = op
    /\ user_calls' = user_calls + 1
    /\ user_raised' = FALSE
    /\ UNCHANGED <<engine_vars, user_state, import_vars, now, hw, phys,
                   budget, listening>>

NextSendOrder ==
    \/ \E k \in HwKeys : Physical(k)
    \/ Process
    \/ \E cfg \in PlayConfigs : AddHotkey(cfg)
    \/ \E op \in SendOrderOps : SendCall(op)
    \/ UserStep

SpecSendOrder == InitSendOrder /\ [][NextSendOrder]_vars

\* ------------------------------------------------------------- unhook_all
\* Threads register hooks, key hooks and hotkeys, and one calls unhook_all;
\* nothing is registered after that call. user_op keeps the unhook_all call.
InitUnhookAll ==
    /\ EngineInit
    /\ budget = MaxUnhookEvents
    /\ import_pc = "done"
    /\ temp_set = TRUE
    /\ marker_exists = TRUE
    /\ spawned = 0
    /\ exec_decoded = FALSE
    /\ setup_pc = "none"

IUnhookAll == [i |-> "unhook_all"]

\* The hotkeys registered before unhook_all.
UnhookConfigs == {cfg \in Configs : ~cfg.wait}

RegisterHotkey(cfg) ==
    /\ user_op = NoCall
    /\ AddHotkey(cfg)

RegisterHook(ret) ==
    /\ user_op = NoCall
    /\ user_calls < MaxUnhookCalls - 1
    /\ HookCall(ret)

RegisterBlockKey(key) ==
    /\ user_op = NoCall
    /\ user_calls < MaxUnhookCalls - 1
    /\ BlockKey(key)

UnhookAllCall ==
    /\ import_pc = "done"
    /\ user_op = NoCall
    /\ Commit(unhook_all(Eng("user")))
    /\ user_op' = IUnhookAll
    /\ listening' = TRUE
    /\ UNCHANGED <<user_todo, user_state, user_calls, user_raised,
                   import_vars, now, hw, phys, budget>>

NextUnhookAll ==
    \/ \E k \in HwKeys : Physical(k)
    \/ Process
    \/ \E cfg \in UnhookConfigs : RegisterHotkey(cfg)
    \/ \E ret \in BOOLEAN : RegisterHook(ret)
    \/ RegisterBlockKey(Name("a"))
    \/ UnhookAllCall

SpecUnhookAll == InitUnhookAll /\ [][NextUnhookAll]_vars

\* ---------------------------------------------------------- word listener
\* A word listener is registered and the user types on a keyboard that has
\* a space bar and a tab key.
InitWords ==
    /\ EngineInit
    /\ budget = MaxWordEvents
    /\ import_pc = "done"
    /\ temp_set = TRUE
    /\ marker_exists = TRUE
    /\ spawned = 0
    /\ exec_decoded = FALSE
    /\ setup_pc = "none"

WordKeys == {LeftCtrl, KeyA, KeyB, Space, Tab}

WordConfigs ==
    [word : {"a", "ab"}, triggers : {{"space"}}, match_suffix : BOOLEAN,
     timeout : {0, 1}]

AddWordListener(cfg) ==
    /\ import_pc = "done"
    /\ word_listeners = <<>>
    /\ phys = <<>>
    /\ Commit(add_word_listener(Eng("user"), cfg))
    /\ listening' = TRUE
    /\ UNCHANGED <<user_vars, import_vars, now, hw, phys, budget>>

\* A second passes.
TickWords ==
    /\ now < MaxWordTime
    /\ now' = now + 1
    /\ UNCHANGED <<engine_vars, user_vars, import_vars, hw, phys, budget,
                   listening>>

NextWords ==
    \/ \E k \in WordKeys : Physical(k)
    \/ Process
    \/ TickWords
    \/ \E cfg \in WordConfigs : AddWordListener(cfg)

SpecWords == InitWords /\ [][NextWords]_vars

\* ------------------------------- suppressing and non-suppressing hotkeys
\* Hotkeys with and without suppress are registered side by side before the
\* first key event.
InitMixed ==
    /\ EngineInit
    /\ budget = MaxMixedEvents
    /\ import_pc = "done"
    /\ temp_set = TRUE
    /\ marker_exists = TRUE
    /\ spawned = 0
    /\ exec_decoded = FALSE
    /\ setup_pc = "none"

MixedConfigs ==
    {Config(HotkeyA, TRUE, DefaultTimeout, FALSE, FALSE, FALSE),
     Config(HotkeyCtrlAB, TRUE, DefaultTimeout, FALSE, FALSE, FALSE),
     Config(HotkeyA, FALSE, DefaultTimeout, FALSE, FALSE, FALSE),
     Config(HotkeyCtrlA, FALSE, DefaultTimeout, FALSE, FALSE, FALSE),
     Config(HotkeyCtrlAB, FALSE, DefaultTimeout, FALSE, FALSE, FALSE)}

AddMixedHotkey(cfg) ==
    /\ import_pc = "done"
    /\ Len(regs) < MaxMixedRegs
    /\ phys = <<>>
    /\ now = 0
    /\ Commit(add_hotkey(Eng("user"), cfg, Len(phys)))
    /\ listening' = TRUE
    /\ UNCHANGED <<user_vars, import_vars, now, hw, phys, budget>>

NextMixed ==
    \/ \E k \in HwKeys : Physical(k)
    \/ Process
    \/ Tick
    \/ \E cfg \in MixedConfigs : AddMixedHotkey(cfg)

SpecMixed == InitMixed /\ [][NextMixed]_vars

\* ------------------------------------------------------- two modifiers
\* A suppressing hotkey with ctrl is registered on a keyboard that has a
\* left and a right ctrl key.
InitChord ==
    /\ EngineInit
    /\ budget = MaxChordEvents
    /\ import_pc = "done"
    /\ temp_set = TRUE
    /\ marker_exists = TRUE
    /\ spawned = 0
    /\ exec_decoded = FALSE
    /\ setup_pc = "none"

ChordKeys == {LeftCtrl, RightCtrl, KeyA}

ChordConfigs ==
    {Config(HotkeyCtrlA, TRUE, DefaultTimeout, FALSE, FALSE, FALSE),
     Config(HotkeyCtrlAB, TRUE, DefaultTimeout, FALSE, FALSE, FALSE)}

AddChordHotkey(cfg) ==
    /\ import_pc = "done"
    /\ regs = <<>>
    /\ phys = <<>>
    /\ now = 0
    /\ Commit(add_hotkey(Eng("user"), cfg, Len(phys)))
    /\ listening' = TRUE
    /\ UNCHANGED <<user_vars, import_vars, now, hw, phys, budget>>

NextChord ==
    \/ \E k \in ChordKeys : Physical(k)
    \/ Process
    \/ Tick
    \/ \E cfg \in ChordConfigs : AddChordHotkey(cfg)

SpecChord == InitChord /\ [][NextChord]_vars

\* ------------------------------------------- a two-step hotkey typed in full
\* 'ctrl+a, b' is registered with suppress=True, triggered on press or on
\* release, and the keyboard produces as many events as typing it takes.
InitSequence ==
    /\ EngineInit
    /\ budget = MaxSequenceEvents
    /\ import_pc = "done"
    /\ temp_set = TRUE
    /\ marker_exists = TRUE
    /\ spawned = 0
    /\ exec_decoded = FALSE
    /\ setup_pc = "none"

SequenceKeys == {LeftCtrl, KeyA, KeyB}

SequenceConfigs ==
    {Config(HotkeyCtrlAB, TRUE, DefaultTimeout, FALSE, FALSE, FALSE),
     Config(HotkeyCtrlAB, TRUE, DefaultTimeout, TRUE, FALSE, FALSE)}

AddSequenceHotkey(cfg) ==
    /\ import_pc = "done"
    /\ regs = <<>>
    /\ phys = <<>>
    /\ Commit(add_hotkey(Eng("user"), cfg, Len(phys)))
    /\ listening' = TRUE
    /\ UNCHANGED <<user_vars, import_vars, now, hw, phys, budget>>

NextSequence ==
    \/ \E k \in SequenceKeys : Physical(k)
    \/ Process
    \/ Tick
    \/ \E cfg \in SequenceConfigs : AddSequenceHotkey(cfg)

SpecSequence == InitSequence /\ [][NextSequence]_vars

\* ---------------------------------------- a two-step hotkey typed twice
\* 'ctrl+a, b' is registered with suppress=True and the user goes on typing
\* after the hotkey has fired; all events come within the same second.
InitRetry ==
    /\ EngineInit
    /\ budget = MaxRetryEvents
    /\ import_pc = "done"
    /\ temp_set = TRUE
    /\ marker_exists = TRUE
    /\ spawned = 0
    /\ exec_decoded = FALSE
    /\ setup_pc = "none"

RetryConfigs ==
    {Config(HotkeyCtrlAB, TRUE, DefaultTimeout, FALSE, FALSE, FALSE)}

AddRetryHotkey(cfg) ==
    /\ import_pc = "done"
    /\ regs = <<>>
    /\ phys = <<>>
    /\ Commit(add_hotkey(Eng("user"), cfg, Len(phys)))
    /\ listening' = TRUE
    /\ UNCHANGED <<user_vars, import_vars, now, hw, phys, budget>>

NextRetry ==
    \/ \E k \in SequenceKeys : Physical(k)
    \/ Process
    \/ \E cfg \in RetryConfigs : AddRetryHotkey(cfg)

SpecRetry == InitRetry /\ [][NextRetry]_vars

\* ------------------------------------------------- a three-step hotkey
\* 'a, b, c' is registered, with or without suppress,
\* before the first key event.
InitSteps ==
    /\ EngineInit
    /\ budget = MaxStepsEvents
    /\ import_pc = "done"
    /\ temp_set = TRUE
    /\ marker_exists = TRUE
    /\ spawned = 0
    /\ exec_decoded = FALSE
    /\ setup_pc = "none"

StepsKeys == {KeyA, KeyB, KeyC}

StepsConfigs ==
    {Config(HotkeyABC, TRUE, DefaultTimeout, FALSE, FALSE, FALSE),
     Config(HotkeyABC, FALSE, DefaultTimeout, FALSE, FALSE, FALSE),
     Config(HotkeyABC, TRUE, DefaultTimeout, FALSE, TRUE, FALSE)}

AddStepsHotkey(cfg) ==
    /\ import_pc = "done"
    /\ regs = <<>>
    /\ phys = <<>>
    /\ Commit(add_hotkey(Eng("user"), cfg, Len(phys)))
    /\ listening' = TRUE
    /\ UNCHANGED <<user_vars, import_vars, now, hw, phys, budget>>

NextSteps ==
    \/ \E k \in StepsKeys : Physical(k)
    \/ Process
    \/ Tick
    \/ \E cfg \in StepsConfigs : AddStepsHotkey(cfg)

SpecSteps == InitSteps /\ [][NextSteps]_vars

\* ------------------------------------------------------------ properties
\* The scan codes, and the (type, scan code) pairs, of a list of events.
Keys(q) == [i \in 1..Len(q) |-> q[i].scan_code]

Edges(q) == [i \in 1..Len(q) |-> <<q[i].event_type, q[i].scan_code>>]

\* Every gap between two successive events is shorter than t.
GapsWithin(q, t) == \A i \in 1..(Len(q) - 1) : q[i + 1].time - q[i].time < t

\* C1: the import of the package (and a run of setup.py) starts no
\* subprocess and executes no dynamically decoded code.
C1_ImportOnlyInitialises == spawned = 0 /\ ~exec_decoded

\* C2: with 'ctrl+a, b' registered with the default options before any key
\* event, once ctrl down, a down, a up, ctrl up, b down have happened with
\* every gap inside the timeout and the worker has processed them all, the
\* callback has been invoked.
C2_TwoStepFires ==
    \A r \in 1..Len(regs) :
        (/\ regs[r].hotkey = HotkeyCtrlAB
         /\ ~regs[r].suppress
         /\ regs[r].at = 0
         /\ Keys(phys) = <<LeftCtrl, KeyA, KeyA, LeftCtrl, KeyB>>
         /\ GapsWithin(phys, regs[r].timeout)
         /\ queue = <<>>)
        => regs[r].calls >= 1

\* C3: with 'ctrl+a, b' registered before any key event, after ctrl+a was
\* pressed, both keys were released and c was pressed, the callback has not
\* been invoked and the OS has received the ctrl, a and c events in their
\* physical order.
C3_MissDeliversAll ==
    \A r \in 1..Len(regs) :
        (/\ regs[r].hotkey = HotkeyCtrlAB
         /\ regs[r].at = 0
         /\ Keys(phys) \in {<<LeftCtrl, KeyA, KeyA, LeftCtrl, KeyC>>,
                            <<LeftCtrl, KeyA, LeftCtrl, KeyA, KeyC>>}
         /\ queue = <<>>)
        => /\ regs[r].calls = 0
           /\ Edges(os) = Edges(phys)

\* The events the keyboard can produce next.
NextEvents == {NextEvent(k) : k \in HwKeys}

\* C4: whatever key event comes next while the listener runs, for a
\* multi-step hotkey that is past its first step with its timeout run out,
\* the blocking hooks leave the hotkey at index 0 before direct_callback
\* consults a step handler, and direct_callback does not invoke the
\* callback; so that after ctrl+a was pressed, a was released and the key
\* of the second step was pressed when the timeout had passed, the callback
\* has not been invoked.
C4_TimeoutResets ==
    /\ (listening /\ ~is_replaying)
       => \A r \in 1..Len(regs) : \A event \in NextEvents :
             Expired(r)
             => /\ run_blocking_hooks(Eng("hook"), event, 1).regs[r].index
                     = 0
                /\ direct_callback(Eng("hook"), event).regs[r].calls
                     = regs[r].calls
    /\ \A r \in 1..Len(regs) :
          (/\ Len(regs[r].steps) = 2
           /\ regs[r].timeout # 0
           /\ regs[r].at = 0
           /\ Len(phys) = 4
           /\ Edges(SubSeq(phys, 1, 3)) = <<<<KEY_DOWN, LeftCtrl>>,
                                            <<KEY_DOWN, KeyA>>,
                                            <<KEY_UP, KeyA>>>>
           /\ phys[4].event_type = KEY_DOWN
           /\ phys[4].scan_code \in allowed_keys(regs[r], 1)
           /\ phys[4].time - phys[3].time >= regs[r].timeout)
          => regs[r].calls = 0

\* C5: for a suppressing multi-step hotkey, once an attempt is over without
\* a callback (all keys released, index 0), no event its step handlers
\* withheld is still waiting in the buffer to be replayed.
C5_WithheldAreReplayed ==
    \A r \in 1..Len(regs) :
        (/\ Len(regs[r].steps) > 1
         /\ regs[r].suppress
         /\ regs[r].calls = 0
         /\ regs[r].index = 0
         /\ hw = {}
         /\ queue = <<>>)
        => regs[r].suppressed_events = <<>>

\* C6: with the single-step hotkey 'a' registered (suppress=False) before
\* any key event and only a pressed and released, once the worker has
\* processed every event the callback has been invoked once per key-down.
C6_OncePerDown ==
    \A r \in 1..Len(regs) :
        (/\ regs[r].hotkey = HotkeyA
         /\ ~regs[r].suppress
         /\ regs[r].wait = "none"
         /\ regs[r].at = 0
         /\ \A i \in 1..Len(phys) : phys[i].scan_code = KeyA
         /\ queue = <<>>)
        => regs[r].calls =
             Cardinality({i \in 1..Len(phys) : phys[i].event_type = KEY_DOWN})

\* C7: once a was pressed and released after wait('a') registered its
\* hotkey and the worker has processed every event, the lock is set, so
\* that wait returns.
C7_WaitReturns ==
    \A r \in 1..Len(regs) :
        (/\ regs[r].wait # "none"
         /\ queue = <<>>
         /\ \E i, j \in (regs[r].at + 1)..Len(phys) :
               /\ i < j
               /\ Edges(phys)[i] = <<KEY_DOWN, KeyA>>
               /\ Edges(phys)[j] = <<KEY_UP, KeyA>>)
        => regs[r].calls > 0

\* C8: an event handed to direct_callback while is_replaying is set, from
\* the keyboard or injected, is delivered by the OS and changes nothing
\* else: not the tables, the modifier states, the hotkey state or the queue.
C8_ReplayingPassesThrough ==
    [][(is_replaying /\ (phys' # phys \/ emitted' # emitted))
       => /\ Len(os') = Len(os) + 1
          /\ phys' # phys =>
               os'[Len(os')] = Delivered(phys'[Len(phys')].event_type,
                                         phys'[Len(phys')].scan_code, FALSE)
          /\ UNCHANGED <<pressed, logical, active_modifiers, modifier_states,
                         filtered_modifiers, blocking_hooks, blocking_keys,
                         handlers, word_listeners,
                         hooks, blocking_hotkeys, nonblocking_hotkeys, queue,
                         regs, cb_threads, is_replaying>>]_vars

\* A key is held that the running listener, which has a hotkey registered
\* and was running before the first event, did not enter into its table,
\* and no injected event was processed: its key-down came during a replay.
C8_Witness ==
    /\ is_replaying
    /\ listening
    /\ Len(regs) > 0
    /\ regs[1].at = 0
    /\ hw \ pressed # {}
    /\ \A i \in 1..Len(emitted) : emitted[i].replaying

\* C9: every backend press / release the library makes is made while
\* is_replaying is set.
C9_EmittedWhileReplaying ==
    \A i \in 1..Len(emitted) : emitted[i].replaying

\* C10: when no API call is running, whether the last one returned or
\* raised, is_replaying is false.
C10_FlagClearedAfterCall == user_todo = <<>> => ~is_replaying

\* C11: a callback registered with add_hotkey never runs on the hook thread
\* inside direct_callback (so a callback that never returns cannot stall the
\* classification of the next key event): cb_threads, the set of threads on
\* which callback() has been entered, never contains the hook thread.
C11_CallbackOffHookThread == "hook" \notin cb_threads

\* C12: every physical event handed to direct_callback while the listener
\* runs and is_replaying is clear is put on the delivery queue exactly once
\* by that call, whatever the accept decision (also when a blocking hook or
\* a per-key blocking hook vetoes it).
C12_PhysicalQueuedOnce ==
    [][(phys' # phys /\ listening /\ ~is_replaying)
       => queue' = Append(queue, phys'[Len(phys')])]_vars

\* C13: after a physical event handed to direct_callback while the listener
\* runs and is_replaying is clear, the event's scan code is in the
\* physically-pressed table exactly when the event was a key-down, whether
\* or not a blocking hook, key hook or hotkey suppressed it.
C13_PressedFollowsPhysical ==
    [][(phys' # phys /\ listening /\ ~is_replaying)
       => (phys'[Len(phys')].scan_code \in pressed'
           <=> phys'[Len(phys')].event_type = KEY_DOWN)]_vars

\* C14: every write to the physically-pressed and to the logically-pressed
\* table is made by a thread that holds _pressed_events_lock: whatever
\* event the running listener is handed next, direct_callback writes
\* neither table outside its `with _pressed_events_lock:` block.
C14_WritesUnderLock ==
    (listening /\ ~is_replaying)
        => \A event \in NextEvents :
              direct_callback(Eng("hook"), event).unlocked_writes = {}

\* The call that left the engine record s raised nothing and changed neither
\* the dispatch tables nor the filtered-modifier counts.
NoOp(s) ==
    /\ ~s.raised
    /\ s.blocking_hooks = blocking_hooks
    /\ s.blocking_keys = blocking_keys
    /\ s.blocking_hotkeys = blocking_hotkeys
    /\ s.nonblocking_hotkeys = nonblocking_hotkeys
    /\ s.filtered_modifiers = filtered_modifiers

\* C15: removing a registration that is already gone is a no-op: an unhook
\* of a hook that was unhooked, a remove_hotkey of a hotkey that was
\* removed, and a remove_hotkey after clear_all_hotkeys raise no error and
\* leave the dispatch tables and the filtered-modifier counts unchanged.
C15_RemoveGoneIsNoOp ==
    /\ \A i \in 1..Len(hooks) :
          ~hooks[i].in_hooks => NoOp(unhook(Eng("user"), i))
    /\ \A r \in 1..Len(regs) :
          (\/ ~regs[r].in_hotkeys
           \/ (blocking_hotkeys = <<>> /\ nonblocking_hotkeys = <<>>))
             => NoOp(clear_hotkey(Eng("user"), r))

\* C16: key_to_scan_codes, called for a key name without error_if_missing
\* being cleared, returns a non-empty tuple of scan codes or raises the
\* 'not mapped to any known key' error: every registration that block_key
\* or remap_key completed holds at least one scan code for its key.
C16_MappedOrRaises ==
    \A i \in 1..Len(hooks) :
       hooks[i].kind \in {"block_key", "remap_key"}
          => hooks[i].scan_codes # <<>>

\* C17: when the listener runs, is_pressed(k) is true right after the
\* backend call of a synthetic press(k) and false right after that of a
\* release(k): after the last key event of a send, is_pressed of that key
\* tells whether the event was a key-down.
C17_IsPressedAfterPress ==
    [][\A k \in HwKeys \cup {RightCtrl} :
          (/\ listening
           /\ phys' = phys
           /\ emitted' # emitted
           /\ user_todo # <<>>
           /\ Head(user_todo).i = "key"
           /\ Head(user_todo).scan_code = k
           /\ Tail(user_todo) = <<IFlag(FALSE)>>)
          => (is_pressed(Eng("user"), Code(k))'.ret
              <=> Head(user_todo).event_type = KEY_DOWN)]_vars

\* The keys the OS sees as held: those whose last delivered event is a
\* key-down.
OsHeld(q) ==
    {c \in {q[i].scan_code : i \in 1..Len(q)} :
        \E i \in 1..Len(q) :
           /\ q[i].scan_code = c
           /\ q[i].event_type = KEY_DOWN
           /\ \A j \in (i + 1)..Len(q) : q[j].scan_code # c}

\* C18: when write(text, restore_state_after=True) returns (its
\* restore_state clears the flag as its last step) and the listener has
\* been running since before the keys went down, the keys the OS sees
\* as held are those held before the call (the keys held on the keyboard,
\* which is left alone from the call on), and the pressed-key table is
\* what it was when the call began (the list stash_state read).
C18_WriteRestoresPressed ==
    [][(/\ user_todo = <<IFlag(FALSE)>>
        /\ user_todo' = <<>>
        /\ regs # <<>>
        /\ regs[1].at = 0)
       => /\ OsHeld(os') = hw'
          /\ pressed' = SeqToSet(user_state')]_vars

\* The scan code of the key of a recorded event.
RecordedCode(event) ==
    IF event.scan_code # 0 THEN event.scan_code
    ELSE map_name(event.name)[1]

RECURSIVE CallsBefore(_, _, _)
CallsBefore(parsed, n, per_key) ==
    IF n = 0 THEN 0
    ELSE CallsBefore(parsed, n - 1, per_key) + per_key * Len(parsed[n])

\* C20: when send(hotkey, do_press, do_release) returns, its backend calls
\* are those of the steps in order; the calls of a step are the presses of
\* its keys in listed order (with do_press) followed by the releases of its
\* keys in the opposite order (with do_release), all before the calls of
\* the next step; each key is sent by its first scan code.
C20_SendOrder ==
    [][(user_todo = <<IFlag(FALSE)>> /\ user_todo' = <<>>)
       => LET parsed == parse_hotkey(user_op.hotkey).t
              p == IF user_op.do_press THEN 1 ELSE 0
              r == IF user_op.do_release THEN 1 ELSE 0
          IN /\ Len(emitted') = CallsBefore(parsed, Len(parsed), p + r)
             /\ \A s \in 1..Len(parsed) : \A k \in 1..Len(parsed[s]) :
                   /\ user_op.do_press =>
                        Edges(emitted')[CallsBefore(parsed, s - 1, p + r) + k]
                           = <<KEY_DOWN, parsed[s][k][1]>>
                   /\ user_op.do_release =>
                        Edges(emitted')[CallsBefore(parsed, s - 1, p + r)
                                        + p * Len(parsed[s]) + k]
                           = <<KEY_UP, parsed[s][Len(parsed[s]) + 1 - k][1]>>]_vars

\* send('ctrl+a+b, c') has returned after its eight backend calls, and
\* the keyboard produced an event meanwhile.
C20_Witness ==
    /\ user_op = ISend(HotkeyCtrlABThenC, TRUE, TRUE)
    /\ user_todo = <<>>
    /\ ~user_raised
    /\ Len(emitted) = 8
    /\ phys # <<>>

\* The number of times the callbacks of the hotkeys and of the hooks have
\* been invoked.
RECURSIVE SumCalls(_)
SumCalls(q) == IF q = <<>> THEN 0 ELSE Head(q).calls + SumCalls(Tail(q))

C22_WordListener ==
    [][(word_listeners # <<>> /\ Len(queue') < Len(queue)) =>
        \E e \in {Head(queue)} : \E w \in {word_listeners[1]} :
        \E name \in {name_of(Head(queue).scan_code)} :
        \E buf \in {IF w.timeout # 0 /\ Head(queue).time - w.time > w.timeout
                    THEN "" ELSE w.current} :
        \E fits \in {buf = w.word
                     \/ (/\ w.match_suffix
                         /\ Len(buf) >= Len(w.word)
                         /\ SubSeq(buf, Len(buf) - Len(w.word) + 1, Len(buf))
                              = w.word)} :
        \E w2 \in {word_listeners'[1]} :
          IF e.event_type = KEY_UP \/ name \in all_modifiers
          THEN w2 = w
          ELSE /\ w2.calls = (IF name \in w.triggers /\ fits
                              THEN w.calls + 1 ELSE w.calls)
               /\ w2.calls > w.calls => w2.current = ""
               /\ (name \notin w.triggers /\ Len(name) > 1) =>
                      (w2.current = "" /\ w2.calls = w.calls)
               /\ Len(name) = 1 => w2.current = buf \o name]_vars

\* 'b', 'a' and space were typed with a suffix listener for 'a': one call.
C22_Witness ==
    /\ word_listeners # <<>>
    /\ word_listeners[1].word = "a"
    /\ word_listeners[1].match_suffix
    /\ word_listeners[1].calls = 1
    /\ word_listeners[1].current = ""
    /\ queue = <<>>
    /\ Len(phys) = 3
    /\ phys[1].scan_code = KeyB
    /\ phys[2].scan_code = KeyA
    /\ phys[3].scan_code = Space

\* ------------------------------------------------------------------- C23
\* The engine as it is after construction, seen by the hook thread.
FreshEngine ==
    [Eng("hook") EXCEPT
       !.pressed = {}, !.logical = {}, !.active_modifiers = {},
       !.modifier_states = [c \in _modifier_scan_codes |-> "free"],
       !.filtered_modifiers = [c \in _modifier_scan_codes |-> 0],
       !.blocking_hotkeys = <<>>, !.nonblocking_hotkeys = <<>>,
       !.blocking_hooks = <<>>, !.queue = <<>>, !.regs = <<>>, !.os = <<>>,
       !.cb_threads = {}, !.emitted = <<>>, !.now = 0]

\* The engine after the add_hotkey calls of the registrations q that ask
\* for suppress, in their order, and of no other.
RECURSIVE OnlySuppressing(_, _)
OnlySuppressing(s, q) ==
    IF q = <<>> THEN s
    ELSE OnlySuppressing(
             IF Head(q).suppress
             THEN add_hotkey(s, Config(Head(q).hotkey, TRUE, Head(q).timeout,
                                       Head(q).trigger_on_release,
                                       Head(q).cb_ret, FALSE), 0)
             ELSE s, Tail(q))

\* The accept decisions direct_callback returns for the events q, from
\* engine state s on.
RECURSIVE Decisions(_, _)
Decisions(s, q) ==
    IF q = <<>> THEN <<>>
    ELSE \* the value of the LET is used once per branch
         (LET s1 == direct_callback([s EXCEPT !.now = Head(q).time], Head(q))
          IN <<s1.ret>> \o Decisions(s1, Tail(q)))

\* The physical events among q that were accepted: the OS delivered them.
AcceptedEdges(q) ==
    Edges(SelectSeq(q, LAMBDA d : ~d.synthetic))

\* The events of q that the decisions d accept.
RECURSIVE Chosen(_, _)
Chosen(q, d) ==
    IF q = <<>> THEN <<>>
    ELSE (IF Head(d) THEN <<Head(q)>> ELSE <<>>) \o Chosen(Tail(q), Tail(d))

\* C23: the physical events accepted in a run are the ones that the same
\* key events would have had accepted with the suppressing hotkeys alone:
\* a hotkey registered with suppress=False withholds no event from the OS.
C23_PlainNeverWithholds ==
    AcceptedEdges(os) =
        Edges(Chosen(phys, Decisions(OnlySuppressing(FreshEngine, regs),
                                     phys)))

\* ------------------------------------------------------------------- C24
\* A suppressing hotkey that uses ctrl is registered.
SuppressingCtrl ==
    \E i \in 1..Len(regs) :
       /\ regs[i].suppress
       /\ regs[i].in_hotkeys
       /\ regs[i].hotkey = HotkeyCtrlAB

\* The last physical event is of type event_type and of key k.
LastPhys(q, event_type, k) ==
    /\ q # <<>>
    /\ q[Len(q)].event_type = event_type
    /\ q[Len(q)].scan_code = k

\* C24: while a suppressing hotkey using ctrl is registered, the key-down
\* of ctrl is withheld (nothing reaches the OS), and a key-up of ctrl that
\* comes next, with no event in between, makes the OS see one synthetic
\* press of ctrl and then the accepted key-up, and leaves ctrl free.
C24_TapModifier ==
    [][(SuppressingCtrl /\ Len(phys') = Len(phys) + 1)
       => /\ LastPhys(phys', KEY_DOWN, LeftCtrl)
               => (os' = os /\ emitted' = emitted)
          /\ (LastPhys(phys, KEY_DOWN, LeftCtrl)
                /\ LastPhys(phys', KEY_UP, LeftCtrl))
               => /\ os' = os \o <<Delivered(KEY_DOWN, LeftCtrl, TRUE),
                                   Delivered(KEY_UP, LeftCtrl, FALSE)>>
                  /\ modifier_states'[LeftCtrl] = "free"]_vars

\* ------------------------------------------------------------------- C25
\* The number of synthetic presses of key k among the backend calls q.
Presses(q, k) ==
    Cardinality({i \in 1..Len(q) :
                   q[i].event_type = KEY_DOWN /\ q[i].scan_code = k})

\* The engine at the point where direct_callback looks up the hotkey
\* handlers of event e.
AtLookup(e) ==
    run_key_hooks(update_pressed(run_blocking_hooks(Eng("hook"), e, 1), e),
                  e, 1)

\* The physical event e was accepted in the step: the OS delivered it.
AcceptedNow(e) ==
    os' # os /\ os'[Len(os')] = Delivered(e.event_type, e.scan_code, FALSE)

\* C25: when filtered modifier ctrl is pending and a key event comes whose
\* signature has suppressing hotkey handlers, ctrl becomes suppressed, no
\* synthetic press of ctrl is emitted and the event is accepted exactly
\* when all these handlers returned true; and while ctrl is suppressed each
\* of its own events is withheld, its key-up returning it to free.
C25_PendingToSuppressed ==
    [][(Len(phys') = Len(phys) + 1) =>
        \E e \in {phys'[Len(phys')]} :
          /\ (/\ modifier_states[LeftCtrl] = "pending"
              /\ filtered_modifiers[LeftCtrl] > 0
              /\ e.scan_code # LeftCtrl
              /\ Get(AtLookup(e).blocking_hotkeys,
                     signature(Eng("hook"), e)) # <<>>)
             => /\ modifier_states'[LeftCtrl] = "suppressed"
                /\ Presses(emitted', LeftCtrl) = Presses(emitted, LeftCtrl)
                /\ AcceptedNow(e) <=>
                     call_hotkeys(AtLookup(e), TRUE,
                                  signature(Eng("hook"), e), e, 1, TRUE).ret
          /\ (modifier_states[LeftCtrl] = "suppressed"
                /\ e.scan_code = LeftCtrl)
             => /\ ~AcceptedNow(e)
                /\ modifier_states'[LeftCtrl] =
                     (IF e.event_type = KEY_UP THEN "free"
                      ELSE "suppressed")]_vars

\* ------------------------------------------------------------------- C26
\* Event e has origin 'modifier': its key is a filtered modifier.
OriginModifier(e) ==
    /\ is_modifier(e.scan_code)
    /\ AtLookup(e).filtered_modifiers[e.scan_code] # 0

\* direct_callback updates the state of modifier m for event e: m is in
\* modifiers_to_update.
Updates(e, m) ==
    /\ ~AtLookup(e).raised
    /\ AtLookup(e).ret
    /\ DOMAIN AtLookup(e).blocking_hotkeys # {}
    /\ IF OriginModifier(e) THEN m = e.scan_code
       ELSE \/ m \in AtLookup(e).active_modifiers
            \/ (is_modifier(e.scan_code) /\ m = e.scan_code)

\* The suppressing hotkey handlers of the signature of e.
HandlersOf(e) ==
    Get(AtLookup(e).blocking_hotkeys, signature(Eng("hook"), e))

SecondModifierDown(first, e) ==
    /\ modifier_states[first] = "pending"
    /\ filtered_modifiers[first] > 0
    /\ e.event_type = KEY_DOWN
    /\ e.scan_code # first
    /\ OriginModifier(e)
    /\ Updates(e, e.scan_code)

SuppressedKeyUpOther(e) ==
    /\ modifier_states[LeftCtrl] = "suppressed"
    /\ e.event_type = KEY_UP
    /\ Updates(e, LeftCtrl)
    /\ ~OriginModifier(e)
    /\ HandlersOf(e) = <<>>

SpanWithin(q, t) == q # <<>> => q[Len(q)].time - q[1].time < t

\* The six events of typing 'ctrl+a, b', ctrl released after a.
TypedCtrlAThenB ==
    << <<KEY_DOWN, LeftCtrl>>, <<KEY_DOWN, KeyA>>, <<KEY_UP, KeyA>>,
       <<KEY_UP, LeftCtrl>>, <<KEY_DOWN, KeyB>>, <<KEY_UP, KeyB>> >>

\* C29: with 'ctrl+a, b' registered with suppress=True and a callback that
\* returns nothing, once ctrl down, a down, a up, ctrl up, b down, b up
\* have come inside the timeout, the callback has been invoked exactly
\* once and the OS has been given none of the six events; and none is
\* replayed to it afterwards: whatever is typed next, the OS is given no
\* event of a key that has not been touched since.
C29_SuppressedSequence ==
    (/\ regs # <<>>
     /\ regs[1].suppress
     /\ ~regs[1].trigger_on_release
     /\ ~regs[1].cb_ret
     /\ Len(phys) >= 6
     /\ Edges(SubSeq(phys, 1, 6)) = TypedCtrlAThenB
     /\ SpanWithin(SubSeq(phys, 1, 6), regs[1].timeout))
    => /\ Len(phys) = 6 => (regs[1].calls = 1 /\ os = <<>>)
       /\ \A k \in SequenceKeys :
            (\A i \in 7..Len(phys) : phys[i].scan_code # k)
            => \A j \in 1..Len(os) : os[j].scan_code # k


\* ------------------------------------------------------------------- C30
\* The six events of typing 'ctrl+a, b', ctrl released before a.
TypedCtrlAThenBCtrlFirst ==
    << <<KEY_DOWN, LeftCtrl>>, <<KEY_DOWN, KeyA>>, <<KEY_UP, LeftCtrl>>,
       <<KEY_UP, KeyA>>, <<KEY_DOWN, KeyB>>, <<KEY_UP, KeyB>> >>

\* C30: with 'ctrl+a, b' registered with trigger_on_release=True and
\* suppress=True, once ctrl+a has been pressed and released, in either
\* order of release, and b has been pressed and released, all inside the
\* timeout, the callback has been invoked.
C30_FiresOnRelease ==
    (/\ regs # <<>>
     /\ regs[1].suppress
     /\ regs[1].trigger_on_release
     /\ Edges(phys) \in {TypedCtrlAThenB, TypedCtrlAThenBCtrlFirst}
     /\ SpanWithin(phys, regs[1].timeout))
    => regs[1].calls >= 1


\* ------------------------------------------------------------------- C31
\* The number of entries of the list q that equal x.
Occurrences(q, x) == Cardinality({i \in 1..Len(q) : q[i] = x})

\* The number of times handler h is registered for signature sig in the
\* dispatch table the registration's `suppress` selects.
Registered(reg, sig, h) ==
    Occurrences(Get(IF reg.suppress THEN blocking_hotkeys
                    ELSE nonblocking_hotkeys, sig), h)

\* The signatures of either dispatch table.
Signatures == DOMAIN blocking_hotkeys \cup DOMAIN nonblocking_hotkeys

\* C31: between events, every multi-step hotkey that is registered has its
\* catch-misses predicate in blocking_hooks exactly when its index is
\* greater than 0, and then once; and its step handler is registered, once,
\* for each combination of the step at its index, and for nothing else.
C31_HooksFollowIndex ==
    \A r \in 1..Len(regs) :
       (Len(regs[r].steps) > 1 /\ regs[r].in_hotkeys)
       => /\ Occurrences(blocking_hooks, CatchMisses(r)) =
               (IF regs[r].index > 0 THEN 1 ELSE 0)
          /\ \A c \in 1..Len(regs[r].steps[regs[r].index + 1]) :
               Registered(regs[r], regs[r].steps[regs[r].index + 1][c],
                          Handler(r, regs[r].index)) = 1
          /\ \A sig \in Signatures : \A step \in 0..(Len(regs[r].steps) - 1) :
               Registered(regs[r], sig, Handler(r, step)) > 0
               => /\ step = regs[r].index
                  /\ sig \in SeqToSet(regs[r].steps[step + 1])


\* 'a, b, c' is at its third step after a and b were pressed and released,
\* with its catch-misses predicate hooked.
C31_Witness ==
    /\ regs # <<>>
    /\ regs[1].index = 2
    /\ Occurrences(blocking_hooks, CatchMisses(1)) = 1
    /\ Keys(phys) = <<KeyA, KeyA, KeyB, KeyB>>
    /\ queue = <<>>


\* ------------------------------------------------------------------- C32
\* C32: once 'ctrl+a, b' has been typed in full inside the timeout, its
\* callback has been invoked and the key of its last step has been
\* released, the registration is as it was after add_hotkey: at index 0,
\* without a catch-misses predicate in blocking_hooks and with an empty
\* buffer of suppressed events.
C32_BackToInitial ==
    (/\ regs # <<>>
     /\ ~regs[1].trigger_on_release
     /\ Edges(phys) = TypedCtrlAThenB
     /\ SpanWithin(phys, regs[1].timeout)
     /\ regs[1].calls >= 1
     /\ queue = <<>>)
    => /\ regs[1].index = 0
       /\ Occurrences(blocking_hooks, CatchMisses(1)) = 0
       /\ regs[1].suppressed_events = <<>>


\* ------------------------------------------------------------------- C33
\* The handler entries of dispatch table d whose combination contains
\* scan code m.
EntriesWith(d, m) ==
    UNION {{<<sig, i>> : i \in 1..Len(d[sig])} :
             sig \in {x \in DOMAIN d : m \in SeqToSet(x)}}

\* C33: whatever add_hotkey, remove_hotkey and clear_all_hotkeys calls and
\* step transitions have happened, the filtered-modifier count of every
\* modifier scan code is the number of live dispatch-table entries whose
\* combination contains it: never negative, and 0 without any entry.
C33_FilteredCountsLive ==
    \A m \in _modifier_scan_codes :
       filtered_modifiers[m] =
           Cardinality(EntriesWith(blocking_hotkeys, m))
           + Cardinality(EntriesWith(nonblocking_hotkeys, m))


\* ------------------------------------------------------------------- C34
\* Registration r is a multi-step hotkey past its first step whose
\* catch-misses predicate is in blocking_hooks.
PastFirstStep(r) ==
    /\ Len(regs[r].steps) > 1
    /\ regs[r].suppress
    /\ regs[r].in_hotkeys
    /\ regs[r].index > 0
    /\ Occurrences(blocking_hooks, CatchMisses(r)) = 1

\* C34: while the listener runs and two multi-step hotkeys are both past
\* their first step, a key press that is in neither hotkey's set of allowed
\* keys makes the blocking hooks reset both registrations to index 0: every
\* predicate of blocking_hooks is evaluated, also when one removes itself
\* from the list during the evaluation.
C34_EveryHookEvaluated ==
    (listening /\ ~is_replaying /\ queue = <<>>)
    => \A r1 \in 1..Len(regs) : \A r2 \in 1..Len(regs) :
          \A event \in NextEvents :
             (/\ r1 # r2
              /\ PastFirstStep(r1)
              /\ PastFirstStep(r2)
              /\ event.event_type = KEY_DOWN
              /\ event.scan_code
                     \notin allowed_keys(regs[r1], regs[r1].index)
              /\ event.scan_code
                     \notin allowed_keys(regs[r2], regs[r2].index))
             => \E s \in {run_blocking_hooks(Eng("hook"), event, 1)} :
                   /\ s.regs[r1].index = 0
                   /\ s.regs[r2].index = 0


\* ------------------------------------------------------------------- C35
\* C35: with two suppressing two-step hotkeys that share their first step
\* registered, once the chord of the first step has been pressed and
\* released inside the timeout (ctrl down, a down, a up, ctrl up), both
\* registrations are at index 1: the handler of each saw the key-up of the
\* first step, though the first of them removed itself from the list of
\* handlers during the dispatch.
C35_BothAdvance ==
    (/\ Len(regs) = 2
     /\ \A r \in 1..2 : /\ regs[r].suppress
                        /\ regs[r].in_hotkeys
                        /\ Len(regs[r].steps) = 2
     /\ regs[1].steps[1] = regs[2].steps[1]
     /\ Edges(phys) = << <<KEY_DOWN, LeftCtrl>>, <<KEY_DOWN, KeyA>>,
                         <<KEY_UP, KeyA>>, <<KEY_UP, LeftCtrl>> >>
     /\ SpanWithin(phys, DefaultTimeout)
     /\ queue = <<>>)
    => /\ regs[1].index = 1
       /\ regs[2].index = 1


\* ------------------------------------------- remove_hotkey, statement-wise
\* The statements of remove_() of add_hotkey, which a thread that calls
\* remove_hotkey runs one at a time while the hook thread handles events.
IRemoveCatchMisses(r) == [i |-> "remove_catch_misses", reg |-> r]

IRemoveLastStep(r) == [i |-> "remove_last_step", reg |-> r]

IPopHotkey(r) == [i |-> "pop", reg |-> r]

remove_body(r) == <<IRemoveCatchMisses(r), IRemoveLastStep(r), IPopHotkey(r)>>

\* One statement of remove_(): state.remove_catch_misses(),
\* state.remove_last_step() or the three _hotkeys.pop calls.
remove_statement(s, ins) ==
    CASE ins.i = "remove_catch_misses" -> remove_catch_misses(s, ins.reg)
      [] ins.i = "remove_last_step" ->
           remove_handler_of(s, s.regs[ins.reg].last_step)
      [] ins.i = "pop" -> [s EXCEPT !.regs[ins.reg].in_hotkeys = FALSE]

InitRemove ==
    /\ EngineInit
    /\ budget = MaxRemoveEvents
    /\ import_pc = "done"
    /\ temp_set = TRUE
    /\ marker_exists = TRUE
    /\ spawned = 0
    /\ exec_decoded = FALSE
    /\ setup_pc = "none"

RemoveConfigs ==
    {Config(HotkeyCtrlAB, TRUE, DefaultTimeout, FALSE, FALSE, FALSE),
     Config(HotkeyCtrlAB, TRUE, DefaultTimeout, FALSE, TRUE, FALSE),
     Config(HotkeyCtrlAB, FALSE, DefaultTimeout, FALSE, FALSE, FALSE)}

AddRemovableHotkey(cfg) ==
    /\ import_pc = "done"
    /\ regs = <<>>
    /\ phys = <<>>
    /\ Commit(add_hotkey(Eng("user"), cfg, Len(phys)))
    /\ listening' = TRUE
    /\ UNCHANGED <<user_vars, import_vars, now, hw, phys, budget>>

\* A thread calls remove_hotkey with the hotkey of registration r.
StartRemove(r) ==
    /\ user_todo = <<>>
    /\ user_calls < MaxRemoveCalls
    /\ regs[r].in_hotkeys
    /\ user_todo' = remove_body(r)
    /\ user_calls' = user_calls + 1
    /\ user_raised' = FALSE
    /\ UNCHANGED <<engine_vars, user_state, user_op, import_vars, now, hw,
                   phys, budget, listening>>

\* That thread runs the next statement of remove_().
RemoveStatement ==
    /\ user_todo # <<>>
    /\ Head(user_todo).i \in {"remove_catch_misses", "remove_last_step",
                              "pop"}
    /\ \E s \in {remove_statement(Eng("user"), Head(user_todo))} :
          /\ Commit([s EXCEPT !.raised = FALSE])
          /\ user_todo' = IF s.raised THEN <<>> ELSE Tail(user_todo)
          /\ user_raised' = s.raised
    /\ UNCHANGED <<user_state, user_calls, user_op, import_vars, now, hw,
                   phys, budget, listening>>

NextRemove ==
    \/ \E k \in SequenceKeys : Physical(k)
    \/ Process
    \/ Tick
    \/ \E cfg \in RemoveConfigs : AddRemovableHotkey(cfg)
    \/ \E r \in 1..Len(regs) : StartRemove(r)
    \/ RemoveStatement

SpecRemove == InitRemove /\ [][NextRemove]_vars

\* ------------------------------------------------------------------- C36
\* remove_hotkey has returned for registration r.
RemoveReturned(r) ==
    /\ ~regs[r].in_hotkeys
    /\ user_todo = <<>>
    /\ ~user_raised

\* The handlers of registration r in dispatch table d.
HandlersOfReg(d, r) ==
    UNION {{<<sig, i>> : i \in {j \in 1..Len(d[sig]) : d[sig][j].reg = r}} :
             sig \in DOMAIN d}

\* C36: once remove_hotkey has returned for a multi-step hotkey, neither
\* dispatch table holds a handler of it, blocking_hooks holds no
\* catch-misses predicate of it, and no later step invokes its callback,
\* whichever way the statements of the removal interleaved with the hook
\* thread's handling of key events.
C36_RemovedForGood ==
    /\ [](\A r \in 1..Len(regs) :
            (RemoveReturned(r) /\ Len(regs[r].steps) > 1)
            => /\ HandlersOfReg(blocking_hotkeys, r) = {}
               /\ HandlersOfReg(nonblocking_hotkeys, r) = {}
               /\ ~Contains(blocking_hooks, CatchMisses(r)))
    /\ [][\A r \in 1..Len(regs) :
            (RemoveReturned(r) /\ Len(regs[r].steps) > 1)
            => regs'[r].calls = regs[r].calls]_vars


\* -------------------------------------------------------------- read_event
\* The registration read_event makes: hook(queue.put, suppress=suppress)
\* with queue = Queue(maxsize=1); queue holds the events put and not yet
\* taken, putting the threads blocked inside queue.put.
NewReader(suppress) ==
    [kind |-> "read_event", ret |-> FALSE, scan_codes |-> <<>>, dst |-> 0,
     in_hooks |-> TRUE, calls |-> 0, suppress |-> suppress, maxsize |-> 1,
     queue |-> <<>>, putting |-> <<>>]

\* The first two statements of read_event(suppress).
read_event_hook(s, suppress) ==
    [s EXCEPT !.hooks = Append(@, NewReader(suppress)),
              !.blocking_hooks =
                 IF suppress THEN Append(@, ReaderHook(Len(s.hooks) + 1))
                 ELSE @,
              !.handlers =
                 IF suppress THEN @
                 ELSE Append(@, ReaderHook(Len(s.hooks) + 1))]

\* unhook(hooked) of read_event: remove_() of hook drops the _hooks entries
\* and removes queue.put from the list it was appended to.
unhook_reader(s, i) ==
    IF ~s.hooks[i].in_hooks THEN [s EXCEPT !.raised = TRUE]
    ELSE Then([s EXCEPT !.hooks[i].in_hooks = FALSE], LAMBDA s1 :
         IF s1.hooks[i].suppress
         THEN IF Contains(s1.blocking_hooks, ReaderHook(i))
              THEN [s1 EXCEPT !.blocking_hooks =
                                RemoveFirst(@, ReaderHook(i))]
              ELSE [s1 EXCEPT !.raised = TRUE]
         ELSE [s1 EXCEPT !.handlers = RemoveFirst(@, ReaderHook(i))])

\* The statements of read_event after the hook is installed.
IQueueGet(i) == [i |-> "queue_get", reg |-> i]

IUnhookReader(i) == [i |-> "unhook_reader", reg |-> i]

\* Thread t is blocked inside the put of a read_event queue.
BlockedInPut(t) ==
    \E i \in 1..Len(hooks) :
       /\ hooks[i].kind = "read_event"
       /\ \E j \in 1..Len(hooks[i].putting) : hooks[i].putting[j].thread = t

InitRead ==
    /\ EngineInit
    /\ budget = MaxReadEvents
    /\ import_pc = "done"
    /\ temp_set = TRUE
    /\ marker_exists = TRUE
    /\ spawned = 0
    /\ exec_decoded = FALSE
    /\ setup_pc = "none"

ReadKeys == {KeyA, KeyB}

\* A thread calls read_event(suppress) and gets as far as queue.get().
ReadEventCall(suppress) ==
    /\ import_pc = "done"
    /\ hooks = <<>>
    /\ Commit(read_event_hook(Eng("user"), suppress))
    /\ user_todo' = <<IQueueGet(1), IUnhookReader(1)>>
    /\ user_calls' = user_calls + 1
    /\ user_raised' = FALSE
    /\ listening' = TRUE
    /\ UNCHANGED <<user_state, user_op, import_vars, now, hw, phys, budget>>

\* event = queue.get(): the reader takes the event once there is one.
ReaderGet ==
    /\ user_todo # <<>>
    /\ Head(user_todo).i = "queue_get"
    /\ hooks[Head(user_todo).reg].queue # <<>>
    /\ user_state' = <<Head(hooks[Head(user_todo).reg].queue)>>
    /\ user_todo' = Tail(user_todo)
    /\ Commit([Eng("user") EXCEPT
                 !.hooks[Head(user_todo).reg].queue = Tail(@)])
    /\ UNCHANGED <<user_calls, user_raised, user_op, import_vars, now, hw,
                   phys, budget, listening>>

\* unhook(hooked); return event.
ReaderUnhook ==
    /\ user_todo # <<>>
    /\ Head(user_todo).i = "unhook_reader"
    /\ \E s \in {unhook_reader(Eng("user"), Head(user_todo).reg)} :
          /\ Commit([s EXCEPT !.raised = FALSE])
          /\ user_raised' = s.raised
    /\ user_todo' = Tail(user_todo)
    /\ UNCHANGED <<user_state, user_calls, user_op, import_vars, now, hw,
                   phys, budget, listening>>

\* A thread blocked in queue.put goes on once the slot is free: the event
\* is put, and the queue worker calls the handlers that follow.
PutCompletes(i) ==
    /\ hooks[i].kind = "read_event"
    /\ hooks[i].putting # <<>>
    /\ Len(hooks[i].queue) < hooks[i].maxsize
    /\ \E p \in {Head(hooks[i].putting)} :
       \E s \in {[Eng(p.thread) EXCEPT
                    !.hooks[i].queue = Append(@, p.event),
                    !.hooks[i].putting = Tail(@)]} :
          Commit(IF p.thread = "worker"
                 THEN invoke_handlers(s, p.event, p.rest)
                 ELSE s)
    /\ UNCHANGED <<user_vars, import_vars, now, hw, phys, budget, listening>>

\* The hook thread and the queue worker handle events while not blocked.
ReadPhysical(k) == ~BlockedInPut("hook") /\ Physical(k)

ReadProcess == ~BlockedInPut("worker") /\ Process

NextRead ==
    \/ \E k \in ReadKeys : ReadPhysical(k)
    \/ ReadProcess
    \/ \E suppress \in BOOLEAN : ReadEventCall(suppress)
    \/ ReaderGet
    \/ ReaderUnhook
    \/ \E i \in 1..Len(hooks) : PutCompletes(i)

SpecRead == InitRead /\ [][NextRead]_vars

\* Every thread takes the steps it can take.
FairSpecRead == SpecRead /\ WF_vars(NextRead)

\* ------------------------------------------------------------------- C37
\* C37: read_event does not leave the thread that runs its hook blocked:
\* whenever the hook thread or the queue worker is blocked inside the put
\* of read_event's queue, it eventually gets on, however the events that
\* arrive interleave with the reader's queue.get() and unhook.
C37_DispatcherContinues ==
    /\ BlockedInPut("hook") ~> ~BlockedInPut("hook")
    /\ BlockedInPut("worker") ~> ~BlockedInPut("worker")


\* ------------------------------------------------------------------- C38
\* C38: whatever key events have come and whatever hooks and hotkeys were
\* registered and removed in between, every scan code in the table of
\* logically pressed keys is in the table of physically pressed keys: a key
\* accepted on its way down leaves the logical table when it is released.
C38_LogicalWithinPhysical == logical \subseteq pressed


\* ------------------------------------------------------------------- C39
\* C39: whenever a modifier key is not held down and no event is being
\* handled, the state of that modifier is free: no modifier is left
\* pending, suppressed or allowed once it has been released.
C39_ReleasedModifierFree ==
    queue = <<>>
    => \A m \in _modifier_scan_codes :
          (m \notin hw /\ m \notin pressed) => modifier_states[m] = "free"


\* ------------------------------------------- two threads that emit keys
\* 'a, b' is registered without suppress; when its callback returns a true
\* value the queue worker replays the buffered events as the hotkey fires.
\* A user thread calls send or restore_state meanwhile.
InitEmit ==
    /\ EngineInit
    /\ budget = MaxEmitEvents
    /\ import_pc = "done"
    /\ temp_set = TRUE
    /\ marker_exists = TRUE
    /\ spawned = 0
    /\ exec_decoded = FALSE
    /\ setup_pc = "none"

HotkeyAB == Hotkey(<< <<"a">>, <<"b">> >>)

EmitConfigs ==
    {Config(HotkeyAB, FALSE, DefaultTimeout, FALSE, TRUE, FALSE),
     Config(HotkeyAB, FALSE, DefaultTimeout, FALSE, FALSE, FALSE)}

EmitKeys == {KeyA, KeyB}

EmitOps ==
    {ISend(Hotkey(<< <<"c">> >>), TRUE, TRUE), IRestore(<<KeyC>>)}

AddEmitHotkey(cfg) ==
    /\ import_pc = "done"
    /\ regs = <<>>
    /\ phys = <<>>
    /\ Commit(add_hotkey(Eng("user"), cfg, Len(phys)))
    /\ listening' = TRUE
    /\ UNCHANGED <<user_vars, import_vars, now, hw, phys, budget>>

EmitCall(op) ==
    /\ import_pc = "done"
    /\ regs # <<>>
    /\ user_todo = <<>>
    /\ user_calls < MaxEmitCalls
    /\ user_todo' = <<op>>
    /\ user_calls' = user_calls + 1
    /\ user_raised' = FALSE
    /\ UNCHANGED <<engine_vars, user_state, user_op, import_vars, now, hw,
                   phys, budget, listening>>

NextEmit ==
    \/ \E k \in EmitKeys : Physical(k)
    \/ Process
    \/ \E cfg \in EmitConfigs : AddEmitHotkey(cfg)
    \/ \E op \in EmitOps : EmitCall(op)
    \/ UserStep

SpecEmit == InitEmit /\ [][NextEmit]_vars

\* ------------------------------------------------------------------- C40
\* What is left of the call holds key events that send or restore_state
\* emits before it clears the flag it has set.
InsideFlagged(todo) ==
    \E n \in 2..Len(todo) :
       /\ todo[n] = IFlag(FALSE)
       /\ \A j \in 1..(n - 1) : todo[j].i = "key"

\* C40: when a thread inside send or restore_state emits a key event while
\* another thread emits synthetic keys too, is_replaying is still set at
\* that emission: the flag is not cleared before the last of the emitting
\* threads has finished.
C40_FlagHeldByLast ==
    [][(/\ InsideFlagged(user_todo)
        /\ Len(emitted') > Len(emitted)
        /\ user_todo' = Tail(user_todo))
       => emitted'[Len(emitted) + 1].replaying]_vars

=============================================================================
